---------------------------- MODULE Spec2Model ----------------------------
(***************************************************************************)
(* A model of the DDL format interpreter, semantics::parser::parse, and    *)
(* after it of the checkers: check.rs (check_defs, kind_of, type_of) and   *)
(* syntax/check/mod.rs (ty_of, expect_ty).                                 *)
(*                                                                         *)
(* parse is a recursive function over a core type and a byte source.  The  *)
(* model runs it as a machine with an explicit call stack: `pc` says       *)
(* whether a call of parse is being entered ("call", with argument `ty`)   *)
(* or is returning ("ret", with result `ret`), and `stack` holds the       *)
(* callers that wait for a sub-parse (a record type waiting for its first  *)
(* field or for its tail, an array waiting for an element).  There is one  *)
(* action per arm of the `match` in parse, one per continuation, and one   *)
(* for the `?` operator that hands an error to the caller.                 *)
(*                                                                         *)
(* Integer literals are arbitrary-precision in the program (BigInt); they  *)
(* are modelled as a sign and a magnitude in base 256, least significant   *)
(* digit first, without leading zero digits.                               *)
(***************************************************************************)
EXTENDS Integers, Sequences, FiniteSets, TLC

VARIABLES
    root,    \* the type the outermost parse was called with
    bytes,   \* the contents of the byte source
    rdr,     \* what the byte source's read_exact does to the position at EOF
    pos,     \* the position of the byte source
    pc,      \* "call", "ret" or "panic"
    ty,      \* the `ty` argument of the call being entered (pc = "call")
    ret,     \* the Result being returned (pc = "ret")
    stack,   \* the waiting callers, innermost last
    reads,   \* history: every successful primitive read, in order
    run,     \* 1 for the first parse of the source, 2 for the parse after a re-seek
    prev,    \* the outcome and end position of the first parse, once it is re-run
    arg,     \* the checker function under study and the arguments of its call
    out,     \* the Result that call returned, Pending before it returns
    env,     \* the Env that check_defs mutates, as a chain of scopes
    next     \* the index of the definition check_defs looks at next

\* The variables of the interpreter and those of the checkers.
psr == <<root, bytes, rdr, pos, pc, ty, ret, stack, reads, run, prev>>
chk == <<arg, out, env, next>>

vars == <<psr, chk>>

---------------------------------------------------------------------------
(* Bounds of the model. *)

\* The most elements of a union type and fields of a struct type that are
\* enumerated exhaustively.
MaxWidth == 2

\* The most definitions of a module.
MaxDefs == 2

\* The longest byte source enumerated exhaustively.
MaxLen == 4

---------------------------------------------------------------------------
(* Sequences of digits. *)

RECURSIVE Reverse(_)
Reverse(s) == IF s = <<>> THEN <<>> ELSE Append(Reverse(Tail(s)), Head(s))

\* Drop the most significant digits that are zero.
RECURSIVE StripZeros(_)
StripZeros(d) ==
    IF d = <<>> THEN <<>>
    ELSE IF d[Len(d)] = 0 THEN StripZeros(SubSeq(d, 1, Len(d) - 1))
    ELSE d

Complement(d) == [i \in 1..Len(d) |-> 255 - d[i]]

\* d + 1 modulo 256^Len(d).
RECURSIVE Increment(_)
Increment(d) ==
    IF d = <<>> THEN <<>>
    ELSE IF Head(d) = 255 THEN <<0>> \o Increment(Tail(d))
    ELSE <<Head(d) + 1>> \o Tail(d)

RECURSIVE SeqsOfLen(_, _)
SeqsOfLen(S, n) ==
    IF n = 0 THEN {<<>>}
    ELSE {Append(s, b) : s \in SeqsOfLen(S, n - 1), b \in S}

SeqsUpTo(S, n) == UNION {SeqsOfLen(S, k) : k \in 0..n}

---------------------------------------------------------------------------
(* Core values (syntax::core::Value), as far as parse looks at them. *)

Universe == [tag |-> "Universe"]
IntType == [tag |-> "IntType"]
Pi == [tag |-> "Pi"]
Lam == [tag |-> "Lam"]
RecordEmpty == [tag |-> "RecordEmpty"]
RecordTypeEmpty == [tag |-> "RecordTypeEmpty"]

Literal(kind, neg, mag) ==
    [tag |-> "Literal", kind |-> kind, neg |-> neg, mag |-> mag]

\* The integer literal k, for a small natural number k.
IntLit(k) == Literal("Int", FALSE, IF k = 0 THEN <<>> ELSE <<k>>)

Array(elems) == [tag |-> "Array", elems |-> elems]

Record(label, binder, ann, body) ==
    [tag |-> "Record", label |-> label, binder |-> binder,
     ann |-> ann, body |-> body]

RecordType(label, binder, ann, body) ==
    [tag |-> "RecordType", label |-> label, binder |-> binder,
     ann |-> ann, body |-> body]

Neutral(head, name, spine) ==
    [tag |-> "Neutral", head |-> head, name |-> name, spine |-> spine]

Global(n, spine) == Neutral("Global", n, spine)
Var(n) == Neutral("Var", n, <<>>)


---------------------------------------------------------------------------
(* The primitive formats: the names matched in parse and the byteorder     *)
(* read each one performs.                                                 *)

UnsignedNames == {"U8", "U16Le", "U16Be", "U32Le", "U32Be", "U64Le", "U64Be"}
SignedNames == {"S8", "S16Le", "S16Be", "S32Le", "S32Be", "S64Le", "S64Be"}
FloatNames == {"F32Le", "F32Be", "F64Le", "F64Be"}
PrimNames == UnsignedNames \cup SignedNames \cup FloatNames

\* PrimSize with the arm of U16Be calling read_u8.
PrimSizeSlip(n) ==
    CASE n \in {"U8", "S8", "U16Be"} -> 1
      [] n \in {"U16Le", "S16Le", "S16Be"} -> 2
      [] n \in {"U32Le", "U32Be", "S32Le", "S32Be", "F32Le", "F32Be"} -> 4
      [] n \in {"U64Le", "U64Be", "S64Le", "S64Be", "F64Le", "F64Be"} -> 8

\* The number of bytes read_u8 .. read_f64 ask the source for.
PrimSize(n) ==
    CASE n \in {"U8", "S8"} -> 1
      [] n \in {"U16Le", "U16Be", "S16Le", "S16Be"} -> 2
      [] n \in {"U32Le", "U32Be", "S32Le", "S32Be", "F32Le", "F32Be"} -> 4
      [] n \in {"U64Le", "U64Be", "S64Le", "S64Be", "F64Le", "F64Be"} -> 8

\* The byte order given as the type argument of the read (<Be> or <Le>).
PrimBigEndian(n) ==
    n \in {"U16Be", "U32Be", "U64Be", "S16Be", "S32Be", "S64Be", "F32Be", "F64Be"}

\* LeDigits with every read done as <Le>.
LeDigitsAsRead(n, buf) == buf

\* The digits of the machine integer held in `buf`, least significant first.
LeDigits(n, buf) == IF PrimBigEndian(n) THEN Reverse(buf) ELSE buf

\* uN -> BigInt (`.into()`).
FromUnsigned(d) == Literal("Int", FALSE, StripZeros(d))

\* iN -> BigInt (`.into()`): the two's-complement value of the digits.
\* A slip: the sign bit read as a digit of the magnitude.
FromSignedAsUnsigned(d) == Literal("Int", FALSE, StripZeros(d))

FromSigned(d) ==
    IF d[Len(d)] >= 128
    THEN Literal("Int", TRUE, StripZeros(Increment(Complement(d))))
    ELSE Literal("Int", FALSE, StripZeros(d))

\* A float literal keeps its bit pattern.
FromFloat(n, d) ==
    Literal(IF n \in {"F32Le", "F32Be"} THEN "F32" ELSE "F64", FALSE, d)

\* The literal that the arm of primitive `n` builds from the bytes read.
ReadPrim(n, buf) ==
    CASE n \in UnsignedNames -> FromUnsigned(LeDigits(n, buf))
      [] n \in SignedNames -> FromSigned(LeDigits(n, buf))
      [] n \in FloatNames -> FromFloat(n, LeDigits(n, buf))

---------------------------------------------------------------------------
(* Array lengths: BigInt::to_usize.                                        *)

\* The width of usize in bytes on the platform the program is built for.
UsizeBytes == 8

\* to_usize() is Some: the literal is not negative and fits usize.
FitsUsize(lit) == (~lit.neg) /\ Len(lit.mag) <= UsizeBytes

\* The value of a magnitude of at most three digits.
RECURSIVE NatOf(_)
NatOf(d) == IF d = <<>> THEN 0 ELSE Head(d) + 256 * NatOf(Tail(d))

\* k < lit, for a count k well below 256^3 and a literal that is not negative.
BelowLen(k, lit) == Len(lit.mag) > 3 \/ k < NatOf(lit.mag)

---------------------------------------------------------------------------
(* Substitution of a parsed value for a field's binder in the rest of a    *)
(* record type, and normalisation of the result.                           *)

\* body.substs(&[(binder, value)]): a free occurrence of the binder becomes
\* the value; a field of the same name further in binds its own tail.
RECURSIVE Substs(_, _, _)
Substs(t, x, v) ==
    CASE t.tag = "Neutral" ->
            IF t.head = "Var" /\ t.name = x /\ t.spine = <<>>
            THEN v
            ELSE [t EXCEPT !.spine =
                      [i \in 1..Len(t.spine) |-> Substs(t.spine[i], x, v)]]
      [] t.tag = "RecordType" ->
            [t EXCEPT !.ann = Substs(t.ann, x, v),
                      !.body = IF t.binder = x THEN t.body
                               ELSE Substs(t.body, x, v)]
      [] OTHER -> t

\* normalize(tc_env, &body): the terms parse meets are made of literals,
\* record types and neutral terms stuck on a name, which are normal forms;
\* normalisation rebuilds them from their normalised parts.
RECURSIVE Normalize(_)
Normalize(t) ==
    CASE t.tag = "Neutral" ->
            Neutral(t.head, t.name,
                    [i \in 1..Len(t.spine) |-> Normalize(t.spine[i])])
      [] t.tag = "RecordType" ->
            RecordType(t.label, t.binder, Normalize(t.ann), Normalize(t.body))
      [] OTHER -> t

---------------------------------------------------------------------------
(* Results and errors. *)

Ok(v) == [kind |-> "Ok", val |-> v]
Err(e) == [kind |-> "Err", err |-> e]
Pending == [kind |-> "Pending"]
NoType == [tag |-> "None"]

InvalidType(t) == [err |-> "InvalidType", arg |-> t]
Internal(var) == [err |-> "Internal", arg |-> var]
BadArrayIndex(len) == [err |-> "BadArrayIndex", arg |-> len]
\* io::ErrorKind::UnexpectedEof, the only I/O error a source of bytes in
\* memory gives.
Io == [err |-> "Io", arg |-> [tag |-> "UnexpectedEof"]]

---------------------------------------------------------------------------
(* The inputs: the types and the byte sources parse is run on.             *)

Prim(n) == Global(n, <<>>)
ArrayT(len, elem) == Global("Array", <<len, elem>>)

\* -1 and 2^64: a length below zero and one above usize::MAX.
MinusOne == Literal("Int", TRUE, <<1>>)
TwoTo64 == Literal("Int", FALSE, <<0, 0, 0, 0, 0, 0, 0, 0, 1>>)
FloatLit == Literal("F64", FALSE, <<0, 0, 0, 0, 0, 0, 240, 63>>)

\* struct { len: lenTy, data: Array len elemTy }
LenData(lenTy, elemTy) ==
    RecordType("len", "len", lenTy,
        RecordType("data", "data", ArrayT(Var("len"), elemTy), RecordTypeEmpty))

Struct1(a) == RecordType("a", "a", a, RecordTypeEmpty)
Struct2(a, b) == RecordType("a", "a", a, RecordType("b", "b", b, RecordTypeEmpty))

\* Values that are no format at all.
NonFormats ==
    { Universe, IntType, IntLit(1), FloatLit, Pi, Lam,
      Record("a", "a", IntLit(1), RecordEmpty), RecordEmpty,
      Array(<<IntLit(1)>>) }

\* Neutral values that parse has no reading for.
BadNeutrals ==
    { Prim("Bogus"), Prim("Array"), Prim("u8"),
      Global("U8", <<Prim("U8")>>),
      Global("Array", <<IntLit(1)>>),
      Global("Array", <<IntLit(1), Prim("U8"), Prim("U8")>>),
      Global("Vec", <<IntLit(1), Prim("U8")>>),
      Var("x"),
      Neutral("Var", "f", <<IntLit(1)>>),
      Neutral("Extern", "ext", <<>>),
      Neutral("If", "", <<>>),
      Neutral("Proj", "", <<>>),
      Neutral("Case", "", <<>>) }

LenArgs ==
    { IntLit(0), IntLit(1), IntLit(2), IntLit(3), MinusOne, TwoTo64,
      Var("n"), FloatLit }

ElemTypes ==
    { Prim("U8"), Prim("U16Be"), Prim("S8"), RecordTypeEmpty, Universe }

ArrayTypes ==
    { ArrayT(l, e) : l \in LenArgs, e \in ElemTypes }
    \cup { ArrayT(IntLit(2), ArrayT(IntLit(2), Prim("U8"))),
           ArrayT(IntLit(2), Struct2(Prim("U8"), Prim("U8"))),
           ArrayT(IntLit(2), LenData(Prim("U8"), Prim("U8"))) }

FieldTypes ==
    { Prim("U8"), Prim("U16Le"), RecordTypeEmpty, Universe,
      ArrayT(IntLit(2), Prim("U8")) }

RecordTypes ==
    { LenData(l, e) : l \in {Prim("U8"), Prim("S8"), Prim("U16Le"), Prim("U16Be")},
                      e \in {Prim("U8"), Prim("U16Be")} }
    \cup { Struct1(a) : a \in FieldTypes }
    \cup { Struct2(a, b) : a \in FieldTypes, b \in FieldTypes }
    \cup { \* three fields
           RecordType("a", "a", Prim("U8"), Struct2(Prim("U16Be"), Prim("U8"))),
           \* a record inside a record
           Struct2(Struct2(Prim("U8"), Prim("U8")), Prim("U8")),
           \* the inner `len` hides the outer one
           RecordType("len", "len", Prim("U8"), LenData(Prim("U8"), Prim("U8"))),
           \* the length is used by a later field, not the next one
           RecordType("len", "len", Prim("U8"),
               RecordType("a", "a", Prim("U8"),
                   RecordType("data", "data", ArrayT(Var("len"), Prim("U8")),
                       RecordTypeEmpty))),
           \* a length that stays a variable
           Struct1(ArrayT(Var("n"), Prim("U8"))) }

Types ==
    {Prim(n) : n \in PrimNames} \cup {RecordTypeEmpty}
    \cup NonFormats \cup BadNeutrals \cup ArrayTypes \cup RecordTypes

\* The byte values of the sources enumerated exhaustively.
ByteVals == {0, 1, 255}

\* The byte sources of the specification's examples.
Examples == { <<2, 7, 8>>, <<3, 10, 11, 12, 13>> }

\* Byte sources at the ends of the signed ranges: 127, -128, -32768, 32767.
Boundary == { <<127>>, <<128>>, <<0, 128>>, <<255, 127>> }

Streams == SeqsUpTo(ByteVals, MaxLen) \cup Examples \cup Boundary

\* The primitives of 8 bytes, and sources long enough for one of them.
WideTypes == {Prim(n) : n \in {m \in PrimNames : PrimSize(m) = 8}}
WideStreams == SeqsOfLen({0, 255}, 8) \cup { <<1, 2, 3, 4, 5, 6, 7, 8>> }

\* What read_exact of the source does when it meets the end of input: it
\* leaves the position where it was, or leaves it at the end of input.
ReaderKinds == {"keep", "drain"}

---------------------------------------------------------------------------
(* The machine. *)

Top == stack[Len(stack)]
Pop == SubSeq(stack, 1, Len(stack) - 1)

Call(t) == pc' = "call" /\ ty' = t /\ ret' = Pending
Return(r) == pc' = "ret" /\ ty' = NoType /\ ret' = r

Done == pc = "ret" /\ stack = <<>>

Init ==
    /\ \/ root \in Types /\ bytes \in Streams
       \/ root \in WideTypes /\ bytes \in WideStreams
    /\ rdr \in ReaderKinds
    /\ pos = 0
    /\ pc = "call"
    /\ ty = root
    /\ ret = Pending
    /\ stack = <<>>
    /\ reads = <<>>
    /\ run = 1
    /\ prev = [ret |-> Pending, pos |-> 0]
    /\ arg = [fn |-> "parse"]
    /\ out = Pending
    /\ env = <<>>
    /\ next = 0

IsGlobal(t) == t.tag = "Neutral" /\ t.head = "Global"

\* Universe | IntType | Literal | Pi | Lam | Record | RecordEmpty | Array
ParseNonFormat ==
    /\ pc = "call"
    /\ ty.tag \in {"Universe", "IntType", "Literal", "Pi", "Lam",
                   "Record", "RecordEmpty", "Array"}
    /\ Return(Err(InvalidType(ty)))
    /\ UNCHANGED <<chk, root, bytes, rdr, pos, stack, reads, run, prev>>

\* Value::RecordType: unbind the scope and parse the first field's type.
ParseRecordType ==
    /\ pc = "call"
    /\ ty.tag = "RecordType"
    /\ stack' = Append(stack, [k |-> "RecAnn", label |-> ty.label,
                               binder |-> ty.binder, body |-> ty.body])
    /\ Call(ty.ann)
    /\ UNCHANGED <<chk, root, bytes, rdr, pos, reads, run, prev>>

\* The first field is parsed: substitute it in the tail, normalise, parse it.
ParseRecordBody ==
    /\ pc = "ret"
    /\ ret.kind = "Ok"
    /\ stack # <<>>
    /\ Top.k = "RecAnn"
    /\ stack' = Append(Pop, [k |-> "RecBody", label |-> Top.label,
                             binder |-> Top.binder, ann |-> ret.val])
    /\ Call(Normalize(Substs(Top.body, Top.binder, ret.val)))
    /\ UNCHANGED <<chk, root, bytes, rdr, pos, reads, run, prev>>

\* The tail is parsed: build the record value.
ParseRecordBuild ==
    /\ pc = "ret"
    /\ ret.kind = "Ok"
    /\ stack # <<>>
    /\ Top.k = "RecBody"
    /\ stack' = Pop
    /\ Return(Ok(Record(Top.label, Top.binder, Top.ann, ret.val)))
    /\ UNCHANGED <<chk, root, bytes, rdr, pos, reads, run, prev>>

\* ParseRecordTypeEmpty probing the source for one byte.
ParseRecordTypeEmptyProbe ==
    /\ pc = "call"
    /\ ty.tag = "RecordTypeEmpty"
    /\ IF pos < Len(bytes)
       THEN Return(Ok(RecordEmpty)) /\ pos' = pos + 1
       ELSE Return(Err(Io)) /\ pos' = pos
    /\ UNCHANGED <<chk, root, bytes, rdr, stack, reads, run, prev>>

\* Value::RecordTypeEmpty
ParseRecordTypeEmpty ==
    /\ pc = "call"
    /\ ty.tag = "RecordTypeEmpty"
    /\ Return(Ok(RecordEmpty))
    /\ UNCHANGED <<chk, root, bytes, rdr, pos, stack, reads, run, prev>>

\* A primitive name with an empty spine, and the source holds its bytes.
ParsePrimitive ==
    /\ pc = "call"
    /\ IsGlobal(ty) /\ Len(ty.spine) = 0 /\ ty.name \in PrimNames
    /\ pos + PrimSize(ty.name) <= Len(bytes)
    /\ LET n == PrimSize(ty.name)
           v == ReadPrim(ty.name, SubSeq(bytes, pos + 1, pos + n))
       IN /\ pos' = pos + n
          /\ reads' = Append(reads, [off |-> pos, size |-> n, val |-> v])
          /\ Return(Ok(v))
    /\ UNCHANGED <<chk, root, bytes, rdr, stack, run, prev>>

\* EofPos of a source that answers the end of input differently each time.
EofPosUnstable(kind, p, len) == IF run = 1 THEN p ELSE len

\* EofPos with the source put back to where the outermost parse started.
EofPosRollback(kind, p, len) == 0

\* The position read_exact leaves behind when the source ends too early.
EofPos(kind, p, len) == IF kind = "keep" THEN p ELSE len

\* A primitive name with an empty spine, and the source ends inside it.
ParsePrimitiveEof ==
    /\ pc = "call"
    /\ IsGlobal(ty) /\ Len(ty.spine) = 0 /\ ty.name \in PrimNames
    /\ pos + PrimSize(ty.name) > Len(bytes)
    /\ pos' = EofPos(rdr, pos, Len(bytes))
    /\ Return(Err(Io))
    /\ UNCHANGED <<chk, root, bytes, rdr, stack, reads, run, prev>>

\* ParseUnknownGlobal taking an unknown name for a format of no bytes.
ParseUnknownGlobalAccepted ==
    /\ pc = "call"
    /\ IsGlobal(ty) /\ Len(ty.spine) = 0 /\ ty.name \notin PrimNames
    /\ Return(Ok(RecordEmpty))
    /\ UNCHANGED <<chk, root, bytes, rdr, pos, stack, reads, run, prev>>

\* Any other global name with an empty spine.
ParseUnknownGlobal ==
    /\ pc = "call"
    /\ IsGlobal(ty) /\ Len(ty.spine) = 0 /\ ty.name \notin PrimNames
    /\ Return(Err(InvalidType(ty)))
    /\ UNCHANGED <<chk, root, bytes, rdr, pos, stack, reads, run, prev>>

IsArrayType(t) == IsGlobal(t) /\ Len(t.spine) = 2 /\ t.name = "Array"
IsIntLiteral(v) == v.tag = "Literal" /\ v.kind = "Int"

\* ParseArray parsing a first element whatever the length is.
ParseArrayAtLeastOne ==
    /\ pc = "call"
    /\ IsArrayType(ty)
    /\ IsIntLiteral(ty.spine[1])
    /\ FitsUsize(ty.spine[1])
    /\ stack' = Append(stack, [k |-> "Arr", len |-> ty.spine[1],
                               elem |-> ty.spine[2], acc |-> <<>>])
    /\ Call(ty.spine[2])
    /\ UNCHANGED <<chk, root, bytes, rdr, pos, reads, run, prev>>

\* Array len elem_ty with a literal length that to_usize accepts: the range
\* 0..len is empty and the array is, or the first element is parsed.
ParseArray ==
    /\ pc = "call"
    /\ IsArrayType(ty)
    /\ IsIntLiteral(ty.spine[1])
    /\ FitsUsize(ty.spine[1])
    /\ IF BelowLen(0, ty.spine[1])
       THEN /\ stack' = Append(stack, [k |-> "Arr", len |-> ty.spine[1],
                                       elem |-> ty.spine[2], acc |-> <<>>])
            /\ Call(ty.spine[2])
       ELSE /\ stack' = stack
            /\ Return(Ok(Array(<<>>)))
    /\ UNCHANGED <<chk, root, bytes, rdr, pos, reads, run, prev>>

\* Array len elem_ty with a literal length for which to_usize is None:
\* unwrap panics.
ParseArrayUnwrapNone ==
    /\ pc = "call"
    /\ IsArrayType(ty)
    /\ IsIntLiteral(ty.spine[1])
    /\ ~FitsUsize(ty.spine[1])
    /\ pc' = "panic"
    /\ UNCHANGED <<chk, root, bytes, rdr, pos, ty, ret, stack, reads, run, prev>>

\* ParseArrayElem with the range 0..=len.
ParseArrayElemOneMore ==
    /\ pc = "ret"
    /\ ret.kind = "Ok"
    /\ stack # <<>>
    /\ Top.k = "Arr"
    /\ LET acc == Append(Top.acc, ret.val)
       IN IF BelowLen(Len(acc) - 1, Top.len)
          THEN /\ stack' = Append(Pop, [Top EXCEPT !.acc = acc])
               /\ Call(Top.elem)
          ELSE /\ stack' = Pop
               /\ Return(Ok(Array(acc)))
    /\ UNCHANGED <<chk, root, bytes, rdr, pos, reads, run, prev>>

\* ParseArrayElem collecting each element in front of the earlier ones.
ParseArrayElemPrepend ==
    /\ pc = "ret"
    /\ ret.kind = "Ok"
    /\ stack # <<>>
    /\ Top.k = "Arr"
    /\ LET acc == <<ret.val>> \o Top.acc
       IN IF BelowLen(Len(acc), Top.len)
          THEN /\ stack' = Append(Pop, [Top EXCEPT !.acc = acc])
               /\ Call(Top.elem)
          ELSE /\ stack' = Pop
               /\ Return(Ok(Array(acc)))
    /\ UNCHANGED <<chk, root, bytes, rdr, pos, reads, run, prev>>

\* An element is parsed: collect it, and parse the next one or build the array.
ParseArrayElem ==
    /\ pc = "ret"
    /\ ret.kind = "Ok"
    /\ stack # <<>>
    /\ Top.k = "Arr"
    /\ LET acc == Append(Top.acc, ret.val)
       IN IF BelowLen(Len(acc), Top.len)
          THEN /\ stack' = Append(Pop, [Top EXCEPT !.acc = acc])
               /\ Call(Top.elem)
          ELSE /\ stack' = Pop
               /\ Return(Ok(Array(acc)))
    /\ UNCHANGED <<chk, root, bytes, rdr, pos, reads, run, prev>>

\* ParseArrayBadIndex reporting the array type instead of the length.
ParseArrayBadIndexAsInvalidType ==
    /\ pc = "call"
    /\ IsArrayType(ty)
    /\ ~IsIntLiteral(ty.spine[1])
    /\ Return(Err(InvalidType(ty)))
    /\ UNCHANGED <<chk, root, bytes, rdr, pos, stack, reads, run, prev>>

\* Array len elem_ty whose length is no integer literal.
ParseArrayBadIndex ==
    /\ pc = "call"
    /\ IsArrayType(ty)
    /\ ~IsIntLiteral(ty.spine[1])
    /\ Return(Err(BadArrayIndex(ty.spine[1])))
    /\ UNCHANGED <<chk, root, bytes, rdr, pos, stack, reads, run, prev>>

\* A global name with a spine that is neither empty nor Array's.
ParseOtherSpine ==
    /\ pc = "call"
    /\ IsGlobal(ty) /\ Len(ty.spine) # 0 /\ ~IsArrayType(ty)
    /\ Return(Err(InvalidType(ty)))
    /\ UNCHANGED <<chk, root, bytes, rdr, pos, stack, reads, run, prev>>

\* Neutral::Head(Head::Var(var))
ParseHeadVar ==
    /\ pc = "call"
    /\ ty.tag = "Neutral" /\ ty.head = "Var"
    /\ Return(Err(Internal([tag |-> "UnexpectedBoundVar", var |-> ty.name])))
    /\ UNCHANGED <<chk, root, bytes, rdr, pos, stack, reads, run, prev>>

\* Head::Extern | Neutral::If | Neutral::Proj | Neutral::Case
ParseStuck ==
    /\ pc = "call"
    /\ ty.tag = "Neutral" /\ ty.head \in {"Extern", "If", "Proj", "Case"}
    /\ Return(Err(InvalidType(ty)))
    /\ UNCHANGED <<chk, root, bytes, rdr, pos, stack, reads, run, prev>>

\* PropagateErr with an array that drops a failed element and goes on.
PropagateErrSkipElem ==
    /\ pc = "ret"
    /\ ret.kind = "Err"
    /\ stack # <<>>
    /\ IF Top.k = "Arr" /\ pos < Len(bytes)
       THEN /\ stack' = stack
            /\ Call(Top.elem)
       ELSE /\ stack' = Pop
            /\ UNCHANGED <<pc, ty, ret>>
    /\ UNCHANGED <<chk, root, bytes, rdr, pos, reads, run, prev>>

\* The `?` after a sub-parse, and collect::<Result<_, _>>: an error of the
\* sub-parse is the caller's result.
PropagateErr ==
    /\ pc = "ret"
    /\ ret.kind = "Err"
    /\ stack # <<>>
    /\ stack' = Pop
    /\ UNCHANGED <<chk, root, bytes, rdr, pos, pc, ty, ret, reads, run, prev>>

Next ==
    \/ ParseNonFormat
    \/ ParseRecordType
    \/ ParseRecordBody
    \/ ParseRecordBuild
    \/ ParseRecordTypeEmpty
    \/ ParsePrimitive
    \/ ParsePrimitiveEof
    \/ ParseUnknownGlobal
    \/ ParseArray
    \/ ParseArrayUnwrapNone
    \/ ParseArrayElem
    \/ ParseArrayBadIndex
    \/ ParseOtherSpine
    \/ ParseHeadVar
    \/ ParseStuck
    \/ PropagateErr

Spec == Init /\ [][Next]_vars

\* The caller seeks the source back to the start and parses it again with
\* the same type; the outcome of the first parse is kept for comparison.
Rerun ==
    /\ Done
    /\ run = 1
    /\ run' = 2
    /\ prev' = [ret |-> ret, pos |-> pos]
    /\ pos' = 0
    /\ reads' = <<>>
    /\ Call(root)
    /\ UNCHANGED <<chk, root, bytes, rdr, stack>>

NextTwice == Next \/ Rerun

SpecTwice == Init /\ [][NextTwice]_vars

---------------------------------------------------------------------------
(* Properties. *)

LenDataU8 == LenData(Prim("U8"), Prim("U8"))

\* C1: for struct { len: U8, data: Array len U8 } and a source whose first
\* byte n is followed by at least n bytes, the parse does not fail, its
\* result is the record of n and of the n bytes after it, in order, and the
\* position afterwards is n + 1.
DependentSizeRoundtrip ==
    (root = LenDataU8 /\ bytes # <<>> /\ Len(bytes) >= bytes[1] + 1)
    => /\ pc # "panic"
       /\ pc = "ret" => ret.kind = "Ok"
       /\ Done =>
            /\ ret.val =
                 Record("len", "len", IntLit(bytes[1]),
                   Record("data", "data",
                     Array([i \in 1..bytes[1] |-> IntLit(bytes[i + 1])]),
                     RecordEmpty))
            /\ pos = bytes[1] + 1

DependentSizeRoundtripWitness ==
    /\ root = LenDataU8
    /\ bytes = <<3, 10, 11, 12, 13>>
    /\ Done
    /\ ret.kind = "Ok"
    /\ ret.val.body.ann = Array(<<IntLit(10), IntLit(11), IntLit(12)>>)
    /\ pos = 4

\* The size in bytes that the name of a primitive format states.
BitWidth(n) ==
    CASE n \in {"U8", "S8"} -> 8
      [] n \in {"U16Le", "U16Be", "S16Le", "S16Be"} -> 16
      [] n \in {"U32Le", "U32Be", "S32Le", "S32Be", "F32Le", "F32Be"} -> 32
      [] n \in {"U64Le", "U64Be", "S64Le", "S64Be", "F64Le", "F64Be"} -> 64

ImpliedSize(n) == BitWidth(n) \div 8

\* The format of the same width and the other byte order.
OtherOrder(n) ==
    CASE n = "U16Le" -> "U16Be" [] n = "U16Be" -> "U16Le"
      [] n = "U32Le" -> "U32Be" [] n = "U32Be" -> "U32Le"
      [] n = "U64Le" -> "U64Be" [] n = "U64Be" -> "U64Le"

IsPrimOf(t, names) == IsGlobal(t) /\ t.spine = <<>> /\ t.name \in names

\* C2: a multi-byte unsigned primitive is decoded in the byte order its name
\* states: U16Le of (b0, b1) is b0 + 256*b1 and U16Be is 256*b0 + b1; for
\* every width the digits of the value are the bytes in the stated order, and
\* the value is the one the other byte order gives for the reversed bytes.
EndianCorrectness ==
    (Done /\ ret.kind = "Ok" /\ IsPrimOf(root, UnsignedNames \ {"U8"}))
    => LET n == root.name
           buf == SubSeq(bytes, 1, ImpliedSize(n))
       IN /\ ~ret.val.neg
          /\ n = "U16Le" => NatOf(ret.val.mag) = buf[1] + 256 * buf[2]
          /\ n = "U16Be" => NatOf(ret.val.mag) = 256 * buf[1] + buf[2]
          /\ n \in {"U16Le", "U32Le", "U64Le"} => ret.val.mag = StripZeros(buf)
          /\ n \in {"U16Be", "U32Be", "U64Be"}
                => ret.val.mag = StripZeros(Reverse(buf))
          /\ ret.val = ReadPrim(OtherOrder(n), Reverse(buf))

EndianCorrectnessWitness ==
    /\ root = Prim("U16Be")
    /\ bytes = <<1, 0>>
    /\ Done
    /\ ret.kind = "Ok"
    /\ NatOf(ret.val.mag) = 256

\* The bytes a value of a type takes: the sizes of its primitive formats,
\* an array's elements one after the other, a record's fields once each with
\* the earlier fields' values substituted in the later fields' types.
RECURSIVE SizeOf(_, _)
SizeOf(t, v) ==
    CASE t.tag = "RecordTypeEmpty" -> 0
      [] t.tag = "RecordType" ->
            SizeOf(t.ann, v.ann)
            + SizeOf(Normalize(Substs(t.body, t.binder, v.ann)), v.body)
      [] IsArrayType(t) ->
            LET RECURSIVE Sum(_)
                Sum(i) == IF i = 0 THEN 0
                          ELSE Sum(i - 1) + SizeOf(t.spine[2], v.elems[i])
            IN Sum(NatOf(t.spine[1].mag))
      [] OTHER -> ImpliedSize(t.name)

RECURSIVE SumSizes(_)
SumSizes(rs) == IF rs = <<>> THEN 0 ELSE Head(rs).size + SumSizes(Tail(rs))

\* C3: after a successful parse the position has advanced by the sum of the
\* sizes of the primitive formats of the type, and that is all that was read.
BytesConsumed ==
    (Done /\ ret.kind = "Ok")
    => /\ pos = SizeOf(root, ret.val)
       /\ pos = SumSizes(reads)

BytesConsumedWitness ==
    /\ root = LenData(Prim("U8"), Prim("U16Be"))
    /\ Done
    /\ ret.kind = "Ok"
    /\ bytes[1] = 1
    /\ pos = 3

BadArrayLengthIsError ==
    [][(pc = "call" /\ IsArrayType(ty) /\ IsIntLiteral(ty.spine[1])
            /\ (ty.spine[1].neg \/ Len(ty.spine[1].mag) > UsizeBytes))
       => (pc' = "ret" /\ ret' = Err(BadArrayIndex(ty.spine[1])))]_vars

\* The values the claim of InvalidType is made for: anything but a
\* primitive name with an empty spine, Array with two arguments, a record
\* type and the empty record type.
NotAFormat(t) ==
    /\ ~IsPrimOf(t, PrimNames)
    /\ ~(IsGlobal(t) /\ t.name = "Array" /\ Len(t.spine) = 2)
    /\ t.tag \notin {"RecordType", "RecordTypeEmpty"}

IsHeadVar(t) == t.tag = "Neutral" /\ t.head = "Var"

\* C6 as stated: parse of every such value, a neutral headed by a variable
\* included, fails with InvalidType carrying the value and reads no bytes.
InvalidTypeForAllNonFormats ==
    [][(pc = "call" /\ NotAFormat(ty))
       => (pc' = "ret" /\ ret' = Err(InvalidType(ty))
           /\ pos' = pos /\ reads' = reads)]_vars

\* C6 as amended: parse of every such value that is not headed by a variable
\* fails with InvalidType carrying the value; parse of a neutral headed by a
\* variable fails with Internal(UnexpectedBoundVar) of that variable; neither
\* reads a byte.
InvalidTypeForNonFormats ==
    [][(pc = "call" /\ NotAFormat(ty))
       => /\ pc' = "ret"
          /\ pos' = pos
          /\ reads' = reads
          /\ ~IsHeadVar(ty) => ret' = Err(InvalidType(ty))
          /\ IsHeadVar(ty)
                => ret' = Err(Internal([tag |-> "UnexpectedBoundVar",
                                        var |-> ty.name]))]_vars

InvalidTypeWitness ==
    /\ root = Struct2(Prim("U8"), Universe)
    /\ bytes = <<1, 0>>
    /\ Done
    /\ ret = Err(InvalidType(Universe))
    /\ pos = 1

\* C7: when the source ends inside a primitive, the parse of the primitive
\* returns the I/O error and no value, the error reaches the caller as it
\* is, and the position never goes back: what earlier fields and elements
\* read stays read.
EofIsIoError ==
    [][/\ pos' >= pos
       /\ SumSizes(reads') <= pos'
       /\ (pc = "call" /\ IsPrimOf(ty, PrimNames)
              /\ pos + ImpliedSize(ty.name) > Len(bytes))
          => (pc' = "ret" /\ ret' = Err(Io) /\ reads' = reads)
       /\ (pc = "ret" /\ ret = Err(Io))
          => (pc' = "ret" /\ ret' = ret /\ pos' = pos)]_vars

EofIsIoErrorWitness ==
    /\ root = Struct2(Prim("U8"), Prim("U16Le"))
    /\ bytes = <<255, 1>>
    /\ rdr = "keep"
    /\ Done
    /\ ret = Err(Io)
    /\ Len(reads) = 1
    /\ pos = 1

\* C8: once a sub-parse has returned an error, nothing more is parsed or
\* read: each caller in turn returns that same error, and the position stays
\* where the failing sub-parse left it.
FirstErrorAborts ==
    [][(pc = "ret" /\ ret.kind = "Err")
       => /\ pc' = "ret"
          /\ ret' = ret
          /\ pos' = pos
          /\ reads' = reads
          /\ Len(stack') < Len(stack)]_vars

FirstErrorAbortsWitness ==
    /\ root = ArrayT(IntLit(3), Prim("U8"))
    /\ Len(bytes) = 2
    /\ Done
    /\ ret = Err(Io)
    /\ Len(reads) = 2

\* The primitive values of a value, in the order its fields and elements
\* are listed.
RECURSIVE Leaves(_)
Leaves(v) ==
    CASE v.tag = "Literal" -> <<v>>
      [] v.tag = "Record" -> Leaves(v.ann) \o Leaves(v.body)
      [] v.tag = "Array" ->
            LET RECURSIVE Cat(_)
                Cat(i) == IF i = 0 THEN <<>>
                          ELSE Cat(i - 1) \o Leaves(v.elems[i])
            IN Cat(Len(v.elems))
      [] OTHER -> <<>>

\* The value has the fields of the type, label by label, in its order.
RECURSIVE SameLabels(_, _)
SameLabels(t, v) ==
    CASE t.tag = "RecordType" ->
            /\ v.tag = "Record"
            /\ v.label = t.label
            /\ SameLabels(t.ann, v.ann)
            /\ SameLabels(t.body, v.body)
      [] t.tag = "RecordTypeEmpty" -> v = RecordEmpty
      [] IsArrayType(t) ->
            /\ v.tag = "Array"
            /\ \A i \in 1..Len(v.elems) : SameLabels(t.spine[2], v.elems[i])
      [] OTHER -> v.tag = "Literal"

\* C9: the reads of a parse follow each other without a gap, the first at
\* the start of the source; the result lists the values read in the order
\* they were read, fields under the labels of the type in its order and
\* array elements by index.
SequentialContiguous ==
    /\ \A i \in 1..Len(reads) :
          reads[i].off = IF i = 1 THEN 0
                         ELSE reads[i - 1].off + reads[i - 1].size
    /\ (Done /\ ret.kind = "Ok")
       => /\ Leaves(ret.val) = [i \in 1..Len(reads) |-> reads[i].val]
          /\ SameLabels(root, ret.val)

SequentialContiguousWitness ==
    /\ root = RecordType("a", "a", Prim("U8"), Struct2(Prim("U16Be"), Prim("U8")))
    /\ bytes = <<255, 0, 1, 0>>
    /\ Done
    /\ ret.kind = "Ok"
    /\ Len(reads) = 3
    /\ reads[3].off = 3

\* C10: parse of the empty record type returns the empty record value and
\* leaves the position where it was, at the end of input too.
EmptyRecordReadsNothing ==
    [][(pc = "call" /\ ty = RecordTypeEmpty)
       => (pc' = "ret" /\ ret' = Ok(RecordEmpty)
           /\ pos' = pos /\ reads' = reads)]_vars

EmptyRecordReadsNothingWitness ==
    /\ root = Struct1(Prim("U8"))
    /\ bytes = <<1>>
    /\ pc = "ret"
    /\ ret = Ok(RecordEmpty)
    /\ pos = Len(bytes)

\* d followed by zero digits, n digits in all.
PadTo(d, n) == d \o [i \in 1..(n - Len(d)) |-> 0]

\* a + b + c = 256^Len(a), for digit sequences a and b of one length and a
\* carry c.
RECURSIVE SumIsPower(_, _, _)
SumIsPower(a, b, c) ==
    IF a = <<>> THEN c = 1
    ELSE /\ (Head(a) + Head(b) + c) % 256 = 0
         /\ SumIsPower(Tail(a), Tail(b), (Head(a) + Head(b) + c) \div 256)

\* The bytes of a primitive, least significant first, by the order its name
\* states.
StatedDigits(n, buf) ==
    IF n \in {"U16Be", "U32Be", "U64Be", "S16Be", "S32Be", "S64Be"}
    THEN Reverse(buf) ELSE buf

\* C11: an integer primitive is lifted to the integer it denotes, exactly: an
\* unsigned N-bit primitive to the value of its N bits, in [0, 2^N - 1]; a
\* signed one to the two's-complement value, the bits themselves when the
\* top bit is clear and minus (2^N - bits) when it is set, which lies in
\* [-2^(N-1), 2^(N-1) - 1].  S8 of FF is -1 and U8 of FF is 255.
IntegerLifting ==
    (Done /\ ret.kind = "Ok" /\ IsPrimOf(root, UnsignedNames \cup SignedNames))
    => LET n == root.name
           w == ImpliedSize(n)
           d == StatedDigits(n, SubSeq(bytes, 1, w))
           v == ret.val
           m == PadTo(v.mag, w)
       IN /\ v.tag = "Literal" /\ v.kind = "Int"
          /\ Len(v.mag) <= w
          /\ v.mag # <<>> => v.mag[Len(v.mag)] # 0
          /\ v.mag = <<>> => ~v.neg
          /\ n \in UnsignedNames => ~v.neg /\ m = d
          /\ (n \in SignedNames /\ d[w] < 128) => ~v.neg /\ m = d
          /\ (n \in SignedNames /\ d[w] >= 128)
                => /\ v.neg
                   /\ SumIsPower(m, d, 0)
                   /\ \/ m[w] < 128
                      \/ m = PadTo(<<>>, w - 1) \o <<128>>
          /\ (n = "S8" /\ bytes[1] = 255) => v = MinusOne
          /\ (n = "U8" /\ bytes[1] = 255) => v = IntLit(255)

IntegerLiftingWitness ==
    /\ root = Prim("S8")
    /\ bytes = <<255>>
    /\ Done
    /\ ret = Ok(MinusOne)

---------------------------------------------------------------------------
(***************************************************************************)
(* The kind checker of the surface language, check.rs.                     *)
(*                                                                         *)
(* kind_of and type_of are functions of an environment that they only      *)
(* read, and are operators here; check_defs changes its environment one    *)
(* definition at a time and is an action per turn of its loop.             *)
(***************************************************************************)

Span(lo, hi) == [lo |-> lo, hi |-> hi]

\* ast::Type.  The constant types are U(size, endianness), I(size,
\* endianness), Bool and UnknownInt; a size is a number of bytes.
TypeConst(k, size, end) ==
    [tag |-> "Const", c |-> [k |-> k, size |-> size, end |-> end]]
bool == TypeConst("Bool", 0, "None")
unknown_int == TypeConst("UnknownInt", 0, "None")
TypeVar(span, name) == [tag |-> "Var", span |-> span, name |-> name]
TypeUnion(span, tys) == [tag |-> "Union", span |-> span, tys |-> tys]
TypeStruct(span, fields) == [tag |-> "Struct", span |-> span, fields |-> fields]
TypeArray(span, elem, size) ==
    [tag |-> "Array", span |-> span, elem |-> elem, size |-> size]
TypeWhere(span, elem, param, pred) ==
    [tag |-> "Where", span |-> span, elem |-> elem, param |-> param,
     pred |-> pred]

Field(name, t) == [name |-> name, ty |-> t]
Definition(name, t) == [name |-> name, ty |-> t]

\* ast::Expr
ExprBool(span, b) == [tag |-> "Bool", span |-> span, b |-> b]
ExprUInt(span, n) == [tag |-> "UInt", span |-> span, n |-> n]
ExprVar(span, name) == [tag |-> "Var", span |-> span, name |-> name]
ExprUnop(span, op, value) ==
    [tag |-> "Unop", span |-> span, op |-> op, value |-> value]
ExprBinop(span, op, lhs, rhs) ==
    [tag |-> "Binop", span |-> span, op |-> op, lhs |-> lhs, rhs |-> rhs]

KindType == [tag |-> "Type"]
Unit == [tag |-> "Unit"]

\* unimplemented!() was reached.
Panic == [kind |-> "Panic"]

\* check::KindError and check::TypeError
UnboundType(span, name) ==
    [err |-> "UnboundType", span |-> span, name |-> name]
ArraySizeExpectedUInt(span, t) ==
    [err |-> "ArraySizeExpectedUInt", span |-> span, ty |-> t]
ArraySizeType(span, e) ==
    [err |-> "ArraySizeType", span |-> span, cause |-> e]
WherePredicateExpectedBool(span, t) ==
    [err |-> "WherePredicateExpectedBool", span |-> span, ty |-> t]
WherePredicateType(span, e) ==
    [err |-> "WherePredicateType", span |-> span, cause |-> e]
UnboundVariable(span, name) ==
    [err |-> "UnboundVariable", span |-> span, name |-> name]

\* Env: a chain of scopes, the innermost last, each a map from type names to
\* types and a map from variable names to types.
None == [some |-> FALSE]
Some(v) == [some |-> TRUE, val |-> v]

EmptyMap == [n \in {} |-> Unit]
Put(f, n, v) == [m \in DOMAIN f \cup {n} |-> IF m = n THEN v ELSE f[m]]

extend(e) == Append(e, [tys |-> EmptyMap, bindings |-> EmptyMap])
add_ty(e, n, t) == [e EXCEPT ![Len(e)].tys = Put(@, n, t)]
add_binding(e, n, t) == [e EXCEPT ![Len(e)].bindings = Put(@, n, t)]

RECURSIVE lookup_ty(_, _)
lookup_ty(e, n) ==
    IF e = <<>> THEN None
    ELSE IF n \in DOMAIN e[Len(e)].tys THEN Some(e[Len(e)].tys[n])
    ELSE lookup_ty(SubSeq(e, 1, Len(e) - 1), n)

RECURSIVE lookup_binding(_, _)
lookup_binding(e, n) ==
    IF e = <<>> THEN None
    ELSE IF n \in DOMAIN e[Len(e)].bindings THEN Some(e[Len(e)].bindings[n])
    ELSE lookup_binding(SubSeq(e, 1, Len(e) - 1), n)

IsConst(t, ks) == t.tag = "Const" /\ t.c.k \in ks

\* A slip: two integer types are always coerced to the left one.
CoerceToLhs(l, r) ==
    IF IsConst(l, {"U", "I", "UnknownInt"}) /\ IsConst(r, {"U", "I", "UnknownInt"})
    THEN Some(l) ELSE None

\* `match (lhs_ty, rhs_ty)` of type_of_comparison_binop and type_of_int_binop:
\* the type the two operand types are coerced to, or None where the match
\* reaches unimplemented!().
Coerce(l, r) ==
    IF IsConst(l, {"U", "I"}) /\ IsConst(r, {"UnknownInt"}) THEN Some(l)
    ELSE IF IsConst(l, {"UnknownInt"}) /\ IsConst(r, {"U", "I"}) THEN Some(r)
    ELSE IF IsConst(l, {"U"}) /\ IsConst(r, {"U"}) /\ l = r THEN Some(l)
    ELSE IF IsConst(l, {"I"}) /\ IsConst(r, {"I"}) /\ l = r THEN Some(l)
    ELSE None

\* The binary operators, of the results l and r of type_of of the two
\* operands: `let lhs_ty = self.type_of(lhs)?; let rhs_ty =
\* self.type_of(rhs)?;` and then the match.
type_of_bool_binop(l, r) ==
    IF l.kind # "Ok" THEN l
    ELSE IF r.kind # "Ok" THEN r
    ELSE IF IsConst(l.val, {"Bool"}) /\ IsConst(r.val, {"Bool"}) THEN l
    ELSE Panic

type_of_comparison_binop(l, r) ==
    IF l.kind # "Ok" THEN l
    ELSE IF r.kind # "Ok" THEN r
    ELSE IF Coerce(l.val, r.val).some THEN Ok(bool)
    ELSE Panic

type_of_int_binop(l, r) ==
    IF l.kind # "Ok" THEN l
    ELSE IF r.kind # "Ok" THEN r
    ELSE IF Coerce(l.val, r.val).some THEN Ok(Coerce(l.val, r.val).val)
    ELSE Panic

type_of_bool_unop(v) ==
    IF v.kind # "Ok" THEN v
    ELSE IF IsConst(v.val, {"Bool"}) THEN v ELSE Panic

type_of_int_unop(v) ==
    IF v.kind # "Ok" THEN v
    ELSE IF IsConst(v.val, {"UnknownInt", "U", "I"}) THEN v ELSE Panic

RECURSIVE type_of(_, _)
type_of(e, expr) ==
    CASE expr.tag = "Bool" -> Ok(bool)
      [] expr.tag = "UInt" -> Ok(unknown_int)
      [] expr.tag = "Var" ->
            IF lookup_binding(e, expr.name).some
            THEN Ok(lookup_binding(e, expr.name).val)
            ELSE Err(UnboundVariable(expr.span, expr.name))
      [] expr.tag = "Unop" ->
            IF expr.op = "Not" THEN type_of_bool_unop(type_of(e, expr.value))
            ELSE type_of_int_unop(type_of(e, expr.value))
      [] expr.tag = "Binop" ->
            LET l == type_of(e, expr.lhs)
                r == type_of(e, expr.rhs)
            IN IF expr.op \in {"Or", "And"}
               THEN type_of_bool_binop(l, r)
               ELSE IF expr.op \in {"Eq", "Ne", "Le", "Lt", "Gt", "Ge"}
               THEN type_of_comparison_binop(l, r)
               ELSE type_of_int_binop(l, r)

RECURSIVE kind_of(_, _)

\* A slip: the error spans the text up to the end of the name.
kind_of_var_from_start(e, t) ==
    IF lookup_ty(e, t.name).some THEN Ok(KindType)
    ELSE Err(UnboundType(Span(0, t.span.hi), t.name))

\* K-VAR
kind_of_var(e, t) ==
    IF lookup_ty(e, t.name).some THEN Ok(KindType)
    ELSE Err(UnboundType(t.span, t.name))

\* A slip: the elements of a union are checked from the last to the first.
RECURSIVE kind_of_union_from_last(_, _)
kind_of_union_from_last(e, tys) ==
    IF tys = <<>> THEN Ok(KindType)
    ELSE IF kind_of(e, tys[Len(tys)]).kind # "Ok"
         THEN kind_of(e, tys[Len(tys)])
    ELSE kind_of_union_from_last(e, SubSeq(tys, 1, Len(tys) - 1))

\* K-SUM: `for ty in tys { self.kind_of(&ty)?; } Ok(Kind::Type)`
RECURSIVE kind_of_union(_, _)
kind_of_union(e, tys) ==
    IF tys = <<>> THEN Ok(KindType)
    ELSE IF kind_of(e, Head(tys)).kind # "Ok" THEN kind_of(e, Head(tys))
    ELSE kind_of_union(e, Tail(tys))

\* A slip: a field is bound before its own type is checked.
RECURSIVE kind_of_fields_bound_first(_, _)
kind_of_fields_bound_first(inner_env, fields) ==
    IF fields = <<>> THEN Ok(KindType)
    ELSE LET bound == add_binding(inner_env, Head(fields).name,
                                  Head(fields).ty)
         IN IF kind_of(bound, Head(fields).ty).kind # "Ok"
            THEN kind_of(bound, Head(fields).ty)
            ELSE kind_of_fields_bound_first(bound, Tail(fields))

\* K-DEPENDENT-PAIR, the loop over the fields; inner_env is self.extend()
\* with the fields before these.
RECURSIVE kind_of_fields(_, _)
kind_of_fields(inner_env, fields) ==
    IF fields = <<>> THEN Ok(KindType)
    ELSE IF kind_of(inner_env, Head(fields).ty).kind # "Ok"
    THEN kind_of(inner_env, Head(fields).ty)
    ELSE kind_of_fields(
             add_binding(inner_env, Head(fields).name, Head(fields).ty),
             Tail(fields))

kind_of_struct(e, t) == kind_of_fields(extend(e), t.fields)

\* A slip: a size of a signed integer type passes.
kind_of_array_signed(e, t) ==
    LET expr_ty == type_of(e, t.size)
    IN IF kind_of(e, t.elem).kind # "Ok" THEN kind_of(e, t.elem)
       ELSE IF expr_ty.kind = "Panic" THEN Panic
       ELSE IF expr_ty.kind = "Err"
       THEN Err(ArraySizeType(t.span, expr_ty.err))
       ELSE IF IsConst(expr_ty.val, {"UnknownInt", "U", "I"})
       THEN Ok(KindType)
       ELSE Err(ArraySizeExpectedUInt(t.span, expr_ty.val))

\* K-ARRAY
kind_of_array(e, t) ==
    LET expr_ty == type_of(e, t.size)
    IN IF kind_of(e, t.elem).kind # "Ok" THEN kind_of(e, t.elem)
       ELSE IF expr_ty.kind = "Panic" THEN Panic
       ELSE IF expr_ty.kind = "Err"
       THEN Err(ArraySizeType(t.span, expr_ty.err))
       ELSE IF IsConst(expr_ty.val, {"UnknownInt", "U"}) THEN Ok(KindType)
       ELSE Err(ArraySizeExpectedUInt(t.span, expr_ty.val))

\* K-CON.  inner_env is built and the binding of the parameter is added to
\* it, and then the predicate is typed with `self.type_of(pred)`.
kind_of_where(e, t) ==
    LET inner_env == add_binding(extend(e), t.param, t.elem)
        pred_ty == type_of(e, t.pred)
    IN IF kind_of(e, t.elem).kind # "Ok" THEN kind_of(e, t.elem)
       ELSE IF pred_ty.kind = "Panic" THEN Panic
       ELSE IF pred_ty.kind = "Err"
       THEN Err(WherePredicateType(t.span, pred_ty.err))
       ELSE IF IsConst(pred_ty.val, {"Bool"}) THEN Ok(KindType)
       ELSE Err(WherePredicateExpectedBool(t.span, pred_ty.val))

kind_of(e, t) ==
    CASE t.tag = "Const" -> Ok(KindType)
      [] t.tag = "Var" -> kind_of_var(e, t)
      [] t.tag = "Union" -> kind_of_union(e, t.tys)
      [] t.tag = "Struct" -> kind_of_struct(e, t)
      [] t.tag = "Array" -> kind_of_array(e, t)
      [] t.tag = "Where" -> kind_of_where(e, t)

---------------------------------------------------------------------------
(* The inputs of the kind checker. *)

u8 == TypeConst("U", 1, "Target")
u32 == TypeConst("U", 4, "Target")
i8 == TypeConst("I", 1, "Target")

\* The type t written at the span sp; a constant type carries no span.
At(t, sp) == IF t.tag = "Const" THEN t ELSE [t EXCEPT !.span = sp]

\* `union { t1, t2, ... }` and `struct { x1: t1, ... }`, the i-th element
\* written at the columns 10*i .. 10*i + 3.
ElemSpan(i) == Span(10 * i, 10 * i + 3)
UnionOf(tys) ==
    TypeUnion(Span(0, 10 * (Len(tys) + 1)),
              [i \in 1..Len(tys) |-> At(tys[i], ElemSpan(i))])
StructOf(fields) ==
    TypeStruct(Span(0, 10 * (Len(fields) + 1)),
               [i \in 1..Len(fields) |->
                   Field(fields[i].name, At(fields[i].ty, ElemSpan(i)))])

Foo == TypeVar(Span(0, 3), "Foo")
Bar == TypeVar(Span(0, 3), "Bar")

\* Env::default() holds the built-in type names and no variable.
EnvDefault == <<[tys |-> Put(EmptyMap, "u8", u8), bindings |-> EmptyMap]>>

ExprLen == ExprVar(Span(5, 8), "len")
ExprData == ExprVar(Span(5, 9), "data")
ExprX == ExprVar(Span(11, 12), "x")
ExprTen == ExprUInt(Span(15, 17), 10)

\* The size expressions of the array types.
SizeExprs ==
    { ExprUInt(Span(5, 7), 16), ExprLen, ExprData,
      ExprBool(Span(5, 9), TRUE),
      ExprUnop(Span(5, 9), "Neg", ExprLen),
      ExprBinop(Span(5, 12), "Add", ExprLen, ExprUInt(Span(11, 12), 1)),
      ExprBinop(Span(5, 10), "Add", ExprUInt(Span(5, 6), 1),
                ExprUInt(Span(9, 10), 2)) }

ArrayOf(elem, size) == TypeArray(Span(0, 9), elem, size)

KindArrays == {ArrayOf(t, e) : t \in {u8, Foo}, e \in SizeExprs}

\* The predicates of the constrained types { x : t | pred }.
Preds ==
    { ExprBinop(Span(11, 17), "Lt", ExprX, ExprTen),
      ExprBinop(Span(11, 17), "Lt", ExprLen, ExprTen),
      ExprBinop(Span(11, 17), "Add", ExprX, ExprTen),
      ExprUnop(Span(11, 13), "Not", ExprX),
      ExprBool(Span(11, 15), TRUE),
      ExprX, ExprTen }

WhereOf(elem, pred) == TypeWhere(Span(0, 19), elem, "x", pred)

KindWheres == {WhereOf(t, b) : t \in {u8, bool, Foo}, b \in Preds}

UnionElems ==
    { u8, Foo, Bar, ArrayOf(u8, ExprLen),
      ArrayOf(u8, ExprBinop(Span(5, 10), "Add", ExprUInt(Span(5, 6), 1),
                            ExprUInt(Span(9, 10), 2))) }

KindUnions ==
    {UnionOf(tys) : tys \in SeqsUpTo(UnionElems, MaxWidth)}
        \cup {UnionOf(<<u8, Foo, i8>>), UnionOf(<<u8, Bar, Foo>>)}

FieldNames == {"len", "data"}
FieldTys == {u8, i8, ArrayOf(u8, ExprLen), ArrayOf(u8, ExprData), Foo}
Fields == {Field(n, t) : n \in FieldNames, t \in FieldTys}

KindStructs ==
    {StructOf(fs) : fs \in SeqsUpTo(Fields, MaxWidth)}
        \cup { StructOf(<<Field("len", u8),
                          Field("data", UnionOf(<<ArrayOf(u8, ExprLen), Foo>>))>>),
               StructOf(<<Field("len", u8),
                          Field("inner",
                                StructOf(<<Field("data", ArrayOf(u8, ExprLen))>>)),
                          Field("data", ArrayOf(u8, ExprData))>>) }

KindTypes ==
    {u8, i8, Foo, Bar} \cup KindArrays \cup KindWheres \cup KindUnions
        \cup KindStructs

\* The environments kind_of is called in: the default one, and it with a
\* type or a variable added as the tests of check.rs do.
KindEnvs ==
    {EnvDefault, add_ty(EnvDefault, "Foo", u32)}
        \cup {add_binding(EnvDefault, "len", t) :
                t \in {u8, u32, i8, bool, StructOf(<<>>)}}
        \cup {add_binding(EnvDefault, "x", t) : t \in {u8, bool}}
        \cup {add_binding(add_ty(EnvDefault, "Foo", u8), "data", u32)}

(* The interpreter is not running while a checker is. *)
ParseIdle ==
    /\ root = NoType
    /\ bytes = <<>>
    /\ rdr = "keep"
    /\ pos = 0
    /\ pc = "idle"
    /\ ty = NoType
    /\ ret = Pending
    /\ stack = <<>>
    /\ reads = <<>>
    /\ run = 0
    /\ prev = [ret |-> Pending, pos |-> 0]

---------------------------------------------------------------------------
(* kind_of, called once. *)

InitKind ==
    /\ ParseIdle
    /\ arg \in {[fn |-> "kind_of", self |-> e, ty |-> t] :
                    e \in KindEnvs, t \in KindTypes}
    /\ env = arg.self
    /\ out = Pending
    /\ next = 0

KindOf ==
    /\ arg.fn = "kind_of"
    /\ out = Pending
    /\ out' = kind_of(env, arg.ty)
    /\ UNCHANGED <<psr, arg, env, next>>

SpecKind == InitKind /\ [][KindOf]_vars

---------------------------------------------------------------------------
(* check_defs, a turn of its loop at a time. *)

VarA == TypeVar(Span(0, 1), "A")
VarB == TypeVar(Span(0, 1), "B")

DefNames == {"A", "B"}
DefTys ==
    { u8, VarA, VarB, Foo, UnionOf(<<VarA, VarB>>),
      StructOf(<<Field("len", u8), Field("data", ArrayOf(u8, ExprLen))>>) }
Defs == {Definition(n, t) : n \in DefNames, t \in DefTys}

\* The type of the j-th definition is written at the columns 100*j and on.
Module(defs) ==
    [j \in 1..Len(defs) |->
        Definition(defs[j].name, At(defs[j].ty, Span(100 * j, 100 * j + 3)))]

Modules == {Module(defs) : defs \in SeqsUpTo(Defs, MaxDefs)}

DefsEnvs == {EnvDefault, add_ty(EnvDefault, "Foo", u32)}

InitDefs ==
    /\ ParseIdle
    /\ arg \in {[fn |-> "check_defs", self |-> e, defs |-> m] :
                    e \in DefsEnvs, m \in Modules}
    /\ env = arg.self
    /\ out = Pending
    /\ next = 1

\* A slip: the definition is added to the environment before it is checked.
def_kind_added(e, def) == kind_of(add_ty(e, def.name, def.ty), def.ty)

\* `self.kind_of(&def.ty)`
def_kind(e, def) == kind_of(e, def.ty)

\* `self.kind_of(&def.ty)?; self.add_ty(def.name, def.ty);`
CheckDef ==
    /\ arg.fn = "check_defs"
    /\ out = Pending
    /\ next <= Len(arg.defs)
    /\ def_kind(env, arg.defs[next]).kind = "Ok"
    /\ env' = add_ty(env, arg.defs[next].name, arg.defs[next].ty)
    /\ next' = next + 1
    /\ UNCHANGED <<psr, arg, out>>

\* A slip: a failing check_defs puts the environment back as it was.
CheckDefErrRestoring ==
    /\ arg.fn = "check_defs"
    /\ out = Pending
    /\ next <= Len(arg.defs)
    /\ def_kind(env, arg.defs[next]).kind # "Ok"
    /\ out' = def_kind(env, arg.defs[next])
    /\ env' = arg.self
    /\ UNCHANGED <<psr, arg, next>>

\* `self.kind_of(&def.ty)?` returns the error.
CheckDefErr ==
    /\ arg.fn = "check_defs"
    /\ out = Pending
    /\ next <= Len(arg.defs)
    /\ def_kind(env, arg.defs[next]).kind # "Ok"
    /\ out' = def_kind(env, arg.defs[next])
    /\ UNCHANGED <<psr, arg, env, next>>

\* `Ok(())` after the loop.
CheckDefsOk ==
    /\ arg.fn = "check_defs"
    /\ out = Pending
    /\ next > Len(arg.defs)
    /\ out' = Ok(Unit)
    /\ UNCHANGED <<psr, arg, env, next>>

NextDefs == CheckDef \/ CheckDefErr \/ CheckDefsOk

SpecDefs == InitDefs /\ [][NextDefs]_vars

\* The type names an environment binds.
TyNames(e) == UNION {DOMAIN e[i].tys : i \in 1..Len(e)}

\* The type names a type mentions.
RECURSIVE TypeRefs(_)
TypeRefs(t) ==
    CASE t.tag = "Const" -> {}
      [] t.tag = "Var" -> {t.name}
      [] t.tag = "Union" -> UNION {TypeRefs(t.tys[i]) : i \in 1..Len(t.tys)}
      [] t.tag = "Struct" ->
            UNION {TypeRefs(t.fields[i].ty) : i \in 1..Len(t.fields)}
      [] t.tag \in {"Array", "Where"} -> TypeRefs(t.elem)

\* The names a reference in the j-th definition may resolve to: those of the
\* environment check_defs was called on and of the definitions before the
\* j-th.
Visible(j) == TyNames(arg.self) \cup {arg.defs[i].name : i \in 1..(j - 1)}

Resolved(j) == TypeRefs(arg.defs[j].ty) \subseteq Visible(j)

\* C12: check_defs checks the definitions in order, the j-th in the
\* environment that holds, besides what it held at the call, exactly the
\* definitions before the j-th: while it runs the environment binds just
\* those names, it accepts a module iff every definition mentions only names
\* visible to it, and it rejects the first definition that mentions its own
\* name or a later definition's name with an unbound-type error for that
\* name.
ItemOrderScope ==
    (arg.fn = "check_defs")
    => /\ next \in 1..(Len(arg.defs) + 1)
       /\ TyNames(env) = Visible(next)
       /\ \A j \in 1..(next - 1) : Resolved(j)
       /\ out.kind \in {"Pending", "Ok", "Err"}
       /\ out.kind = "Ok" => next = Len(arg.defs) + 1
       /\ out.kind = "Err"
            => /\ next <= Len(arg.defs)
               /\ out.err.err = "UnboundType"
               /\ out.err.name \in TypeRefs(arg.defs[next].ty)
               /\ out.err.name \notin Visible(next)
       /\ (out.kind = "Pending" /\ next <= Len(arg.defs) /\ ~Resolved(next))
            => ~ENABLED CheckDef

ItemOrderScopeWitness ==
    /\ arg.fn = "check_defs"
    /\ arg.self = EnvDefault
    /\ arg.defs = Module(<<Definition("A", u8),
                           Definition("B", UnionOf(<<VarA, VarB>>))>>)
    /\ next = 2
    /\ out = Err(UnboundType(ElemSpan(2), "B"))

\* The definitions that are ill-formed wherever they stand in the module:
\* they mention a type name that neither the environment nor any definition
\* of the module binds.
IllFormed ==
    {j \in 1..Len(arg.defs) :
        ~(TypeRefs(arg.defs[j].ty)
            \subseteq Visible(Len(arg.defs) + 1))}

\* The diagnostics a result carries.
Diagnostics(r) == IF r.kind = "Err" THEN 1 ELSE 0

\* C13: errors are collected: when check_defs has returned, every definition
\* of the module has been looked at, and the result carries a diagnostic for
\* each ill-formed definition.
ErrorsCollected ==
    (arg.fn = "check_defs" /\ out.kind # "Pending")
    => /\ next = Len(arg.defs) + 1
       /\ Diagnostics(out) >= Cardinality(IllFormed)

---------------------------------------------------------------------------
(* Properties of kind_of. *)

\* The occurrences of type names in a type, each with its span.
RECURSIVE Occurrences(_)
Occurrences(t) ==
    CASE t.tag = "Const" -> {}
      [] t.tag = "Var" -> {[name |-> t.name, span |-> t.span]}
      [] t.tag = "Union" ->
            UNION {Occurrences(t.tys[i]) : i \in 1..Len(t.tys)}
      [] t.tag = "Struct" ->
            UNION {Occurrences(t.fields[i].ty) : i \in 1..Len(t.fields)}
      [] t.tag \in {"Array", "Where"} -> Occurrences(t.elem)

\* A union of type names and constant types.
UnionOfNames(t) ==
    t.tag = "Union" /\ \A i \in 1..Len(t.tys) : t.tys[i].tag \in {"Var", "Const"}

\* The elements of such a union that are unbound names.
UnboundElems(e, t) ==
    {i \in 1..Len(t.tys) :
        t.tys[i].tag = "Var" /\ t.tys[i].name \notin TyNames(e)}

Min(S) == CHOOSE i \in S : \A j \in S : i <= j

\* C14: kind_of of a type that mentions a type name the environment does not
\* bind is not Ok; an unbound-type error carries the name and the span of
\* one occurrence of a name that is unbound; for a type name alone and for a
\* union of type names the result is the one unbound-type error of the first
\* unbound name, with the span of that occurrence and not of the union; a
\* bound name has kind Type.
UnboundNameError ==
    (arg.fn = "kind_of" /\ out.kind # "Pending")
    => LET t == arg.ty
       IN /\ ~(TypeRefs(t) \subseteq TyNames(env)) => out.kind # "Ok"
          /\ (out.kind = "Err" /\ out.err.err = "UnboundType")
                => /\ [name |-> out.err.name, span |-> out.err.span]
                        \in Occurrences(t)
                   /\ out.err.name \notin TyNames(env)
          /\ (t.tag = "Var" /\ t.name \in TyNames(env)) => out = Ok(KindType)
          /\ (t.tag = "Var" /\ t.name \notin TyNames(env))
                => out = Err(UnboundType(t.span, t.name))
          /\ (UnionOfNames(t) /\ UnboundElems(env, t) = {})
                => out = Ok(KindType)
          /\ (UnionOfNames(t) /\ UnboundElems(env, t) # {})
                => LET el == t.tys[Min(UnboundElems(env, t))]
                   IN /\ out = Err(UnboundType(el.span, el.name))
                      /\ out.err.span # t.span

UnboundNameErrorWitness ==
    /\ arg.fn = "kind_of"
    /\ env = EnvDefault
    /\ arg.ty = UnionOf(<<u8, Foo, i8>>)
    /\ out = Err(UnboundType(ElemSpan(2), "Foo"))

\* An array type of a type name or a constant type whose size is a literal
\* or a variable.
PlainArray(t) ==
    /\ t.tag = "Array"
    /\ t.elem.tag \in {"Var", "Const"}
    /\ t.size.tag \in {"UInt", "Var"}

\* The type of the size of such an array: none for an unbound variable.
SizeType(e, size) ==
    IF size.tag = "UInt" THEN Some(unknown_int)
    ELSE lookup_binding(e, size.name)

Unsigned(t) == t.tag = "Const" /\ t.c.k = "U"

\* C15: an array type [t; e] has kind Type iff t is well-kinded and e has an
\* integer type that can count: for a size that is a literal or a variable,
\* iff the size is a literal or is bound at an unsigned type; a size bound at
\* a signed or a non-integer type is rejected with the error that carries the
\* span of the array type and the type found.
ArraySizeKind ==
    (arg.fn = "kind_of" /\ out.kind # "Pending" /\ arg.ty.tag = "Array")
    => LET t == arg.ty
           elemOk == kind_of(env, t.elem) = Ok(KindType)
           sz == type_of(env, t.size)
       IN /\ out = Ok(KindType)
                <=> /\ elemOk
                    /\ sz.kind = "Ok"
                    /\ IsConst(sz.val, {"UnknownInt", "U"})
          /\ PlainArray(t)
                => LET st == SizeType(env, t.size)
                       ok == t.elem.tag = "Var" => t.elem.name \in TyNames(env)
                   IN /\ out = Ok(KindType)
                            <=> /\ ok
                                /\ st.some
                                /\ t.size.tag = "UInt" \/ Unsigned(st.val)
                      /\ (ok /\ st.some /\ t.size.tag = "Var"
                             /\ ~Unsigned(st.val))
                            => out = Err(ArraySizeExpectedUInt(t.span, st.val))

ArraySizeKindWitness ==
    /\ arg.fn = "kind_of"
    /\ env = add_binding(EnvDefault, "len", i8)
    /\ arg.ty = ArrayOf(u8, ExprLen)
    /\ out = Err(ArraySizeExpectedUInt(Span(0, 9), i8))

\* C16: a constrained type { x : t | b } has kind Type iff t is well-kinded
\* and b has type Bool in the environment extended with x : t; so
\* { x : u8 | x < 10 } is accepted where x is bound nowhere else.
WherePredicateScope ==
    (arg.fn = "kind_of" /\ out.kind # "Pending" /\ arg.ty.tag = "Where")
    => LET t == arg.ty
           extended == add_binding(extend(env), t.param, t.elem)
       IN /\ out = Ok(KindType)
                <=> /\ kind_of(env, t.elem) = Ok(KindType)
                    /\ type_of(extended, t.pred) = Ok(bool)
          /\ (env = EnvDefault
                /\ t = WhereOf(u8, ExprBinop(Span(11, 17), "Lt", ExprX, ExprTen)))
                => out = Ok(KindType)

\* The environment e with the first n of the fields bound, in order.
RECURSIVE BindFields(_, _, _)
BindFields(e, fields, n) ==
    IF n = 0 THEN e
    ELSE add_binding(BindFields(e, fields, n - 1),
                     fields[n].name, fields[n].ty)

\* The enclosing environment extended with the fields before the i-th.
ScopeBefore(e, fields, i) == BindFields(extend(e), fields, i - 1)

\* The variables an environment binds.
BindingNames(e) == UNION {DOMAIN e[i].bindings : i \in 1..Len(e)}

\* C17: the type of field i of a struct type is checked in the enclosing
\* environment extended with the fields before it, and the struct has the
\* result of the first field that is not Ok: a field may use an earlier
\* field as a size; a field whose size is its own name or a later field's,
\* bound nowhere outside, is rejected for the unbound variable; and kind_of
\* leaves the environment of its caller as it was.
FieldScope ==
    (arg.fn = "kind_of" /\ out.kind # "Pending" /\ arg.ty.tag = "Struct")
    => LET fs == arg.ty.fields
           res(i) == kind_of(ScopeBefore(env, fs, i), fs[i].ty)
           bad == {i \in 1..Len(fs) : res(i).kind # "Ok"}
       IN /\ env = arg.self
          /\ bad = {} => out = Ok(KindType)
          /\ bad # {} => out = res(Min(bad))
          /\ \A i \in 1..Len(fs) :
                (/\ fs[i].ty.tag = "Array"
                 /\ fs[i].ty.elem.tag = "Const"
                 /\ fs[i].ty.size.tag = "Var"
                 /\ fs[i].ty.size.name
                        \notin BindingNames(env)
                               \cup {fs[k].name : k \in 1..(i - 1)})
                => /\ i \in bad
                   /\ res(i) = Err(ArraySizeType(fs[i].ty.span,
                                     UnboundVariable(fs[i].ty.size.span,
                                                     fs[i].ty.size.name)))

FieldScopeWitness ==
    /\ arg.fn = "kind_of"
    /\ env = EnvDefault
    /\ arg.ty = StructOf(<<Field("len", u8),
                           Field("data", ArrayOf(u8, ExprLen))>>)
    /\ out = Ok(KindType)

\* No two entries of a sequence of fields or definitions have one name.
DistinctNames(named) ==
    \A i, j \in 1..Len(named) : named[i].name = named[j].name => i = j

\* C18: a struct type with two fields of one label is rejected with a
\* DuplicateField error, so that the fields of an accepted struct type have
\* pairwise distinct labels.
DistinctFieldLabels ==
    (arg.fn = "kind_of" /\ out.kind # "Pending" /\ arg.ty.tag = "Struct")
    => /\ out.kind = "Ok" => DistinctNames(arg.ty.fields)
       /\ ~DistinctNames(arg.ty.fields)
            => out.kind = "Err" /\ out.err.err = "DuplicateField"

\* C19: the definitions of a module that check_defs accepts have pairwise
\* distinct names.
UniqueItemNames ==
    (arg.fn = "check_defs" /\ out.kind = "Ok") => DistinctNames(arg.defs)

---------------------------------------------------------------------------
(***************************************************************************)
(* The type checker of host expressions, syntax/check/mod.rs: ty_of and    *)
(* expect_ty, functions of a context that they only read.                  *)
(***************************************************************************)

\* host::Type, as far as its constants go.
HostType(k) == [tag |-> "HostConst", k |-> k]
HostU8 == HostType("U8")
HostBool == HostType("Bool")
HostInt == HostType("Int")

\* host::Expr
HostConst(k) == [tag |-> "Const", k |-> k]
HostFree(name) == [tag |-> "Free", name |-> name]
HostBound(name, i) == [tag |-> "Bound", name |-> name, i |-> i]
HostPrim(repr_ty) == [tag |-> "Prim", repr |-> repr_ty]
HostUnop(op, expr) == [tag |-> "Unop", op |-> op, operand |-> expr]
HostBinop(op, lhs, rhs) == [tag |-> "Binop", op |-> op, lhs |-> lhs, rhs |-> rhs]
HostApp(fn_expr, arg_exprs) == [tag |-> "App", fn |-> fn_expr, args |-> arg_exprs]

\* host::Type::Arrow
HostArrow(param_tys, ret_ty) ==
    [tag |-> "Arrow", params |-> param_tys, ret |-> ret_ty]

\* check::ExpectedType and check::TypeError
Actual(t) == [tag |-> "Actual", ty |-> t]
ExpectedArrow == [tag |-> "Arrow"]
Mismatch(expr, expected, found) ==
    [err |-> "Mismatch", expr |-> expr, expected |-> expected, found |-> found]
HostUnboundVariable(expr, name) ==
    [err |-> "UnboundVariable", expr |-> expr, name |-> name]
ExprBindingExpected(expr, found) ==
    [err |-> "ExprBindingExpected", expr |-> expr, found |-> found]
EqualityOperands(expr, lhs_ty, rhs_ty) ==
    [err |-> "EqualityOperands", expr |-> expr, lhs_ty |-> lhs_ty,
     rhs_ty |-> rhs_ty]

\* Const::ty_const_of: the type constant of a constant.
ty_const_of(k) == HostType(k)

\* Context: the scopes from the innermost out; a bound variable names the
\* scope it is bound in.  Context::lookup_ty gives the type of a variable
\* bound by an expression scope, and the scope itself otherwise.
ExprScope(t) == [scope |-> "ExprAbs", ty |-> t]
TypeScope == [scope |-> "TypeDef"]

ctx_lookup_ty(ctx, i) ==
    IF ctx[i + 1].scope = "ExprAbs" THEN Ok(ctx[i + 1].ty) ELSE Err(ctx[i + 1])

RECURSIVE ty_of(_, _)

\* A slip: found and expected change places in the error.
expect_ty_swapped(ctx, expr, expected) ==
    LET found == ty_of(ctx, expr)
    IN IF found.kind # "Ok" THEN found
       ELSE IF found.val = expected THEN Ok(found.val)
       ELSE Err(Mismatch(expr, Actual(found.val), expected))

expect_ty(ctx, expr, expected) ==
    LET found == ty_of(ctx, expr)
    IN IF found.kind # "Ok" THEN found
       ELSE IF found.val = expected THEN Ok(found.val)
       ELSE Err(Mismatch(expr, Actual(expected), found.val))

\* `expect_ty(ctx, lhs_expr, t)?; expect_ty(ctx, rhs_expr, t)?; Ok(res)`
expect_both(ctx, lhs, rhs, t, res) ==
    IF expect_ty(ctx, lhs, t).kind # "Ok" THEN expect_ty(ctx, lhs, t)
    ELSE IF expect_ty(ctx, rhs, t).kind # "Ok" THEN expect_ty(ctx, rhs, t)
    ELSE Ok(res)

\* Binop::Eq | Binop::Ne
ty_of_equality(expr, l, r) ==
    IF l.kind # "Ok" THEN l
    ELSE IF r.kind # "Ok" THEN r
    ELSE IF l.val = r.val /\ l.val \in {HostU8, HostBool, HostInt}
    THEN Ok(HostBool)
    ELSE Err(EqualityOperands(expr, l.val, r.val))

\* `for (arg_expr, param_ty) in arg_exprs.iter().zip(param_tys) {
\*      expect_ty(ctx, arg_expr, param_ty.clone())?; } return Ok(ret_ty)`
RECURSIVE expect_args(_, _, _, _)
expect_args(ctx, arg_exprs, param_tys, ret_ty) ==
    IF arg_exprs = <<>> \/ param_tys = <<>> THEN Ok(ret_ty)
    ELSE IF expect_ty(ctx, Head(arg_exprs), Head(param_tys)).kind # "Ok"
         THEN expect_ty(ctx, Head(arg_exprs), Head(param_tys))
    ELSE expect_args(ctx, Tail(arg_exprs), Tail(param_tys), ret_ty)

\* Expr::App: an arrow applied to another number of arguments than it has
\* parameters reaches unimplemented!().
ty_of_app(ctx, expr, fn_ty) ==
    IF fn_ty.kind # "Ok" THEN fn_ty
    ELSE IF fn_ty.val.tag = "Arrow"
    THEN IF Len(expr.args) = Len(fn_ty.val.params)
         THEN expect_args(ctx, expr.args, fn_ty.val.params, fn_ty.val.ret)
         ELSE Panic
    ELSE Err(Mismatch(expr.fn, ExpectedArrow, fn_ty.val))

ty_of(ctx, expr) ==
    CASE expr.tag = "Const" -> Ok(ty_const_of(expr.k))
      [] expr.tag = "Free" -> Err(HostUnboundVariable(expr, expr.name))
      [] expr.tag = "Bound" ->
            IF ctx_lookup_ty(ctx, expr.i).kind = "Ok"
            THEN ctx_lookup_ty(ctx, expr.i)
            ELSE Err(ExprBindingExpected(expr, ctx_lookup_ty(ctx, expr.i).err))
      [] expr.tag = "Prim" -> Ok(expr.repr)
      [] expr.tag = "Unop" /\ expr.op = "Neg" ->
            IF expect_ty(ctx, expr.operand, HostInt).kind # "Ok"
            THEN expect_ty(ctx, expr.operand, HostInt)
            ELSE Ok(HostInt)
      [] expr.tag = "Unop" /\ expr.op = "Not" ->
            IF expect_ty(ctx, expr.operand, HostBool).kind # "Ok"
            THEN expect_ty(ctx, expr.operand, HostBool)
            ELSE Ok(HostBool)
      [] expr.tag = "Binop" /\ expr.op \in {"Or", "And"} ->
            expect_both(ctx, expr.lhs, expr.rhs, HostBool, HostBool)
      [] expr.tag = "Binop" /\ expr.op \in {"Eq", "Ne"} ->
            ty_of_equality(expr, ty_of(ctx, expr.lhs), ty_of(ctx, expr.rhs))
      [] expr.tag = "Binop" /\ expr.op \in {"Le", "Lt", "Gt", "Ge"} ->
            expect_both(ctx, expr.lhs, expr.rhs, HostInt, HostBool)
      [] expr.tag = "Binop" /\ expr.op \in {"Add", "Sub", "Mul", "Div"} ->
            expect_both(ctx, expr.lhs, expr.rhs, HostInt, HostInt)
      [] expr.tag = "App" -> ty_of_app(ctx, expr, ty_of(ctx, expr.fn))

HostTypes == {HostU8, HostBool, HostInt}

\* A context of two scopes: variable 0 is bound to an Int by an expression
\* scope, and index 1 is a scope of type definitions.
HostCtx == <<ExprScope(HostInt), TypeScope>>

HostLeaves ==
    {HostConst(k) : k \in {"Bool", "Int"}}
        \cup {HostPrim(t) : t \in HostTypes}
        \cup {HostFree("y"), HostBound("n", 0), HostBound("T", 1)}

Unops == {"Neg", "Not"}
Binops == {"Or", "And", "Eq", "Ne", "Le", "Lt", "Gt", "Ge",
           "Add", "Sub", "Mul", "Div"}

\* An operator over leaves, and operators over such operators.
HostOps ==
    {HostUnop(op, e) : op \in Unops, e \in HostLeaves}
        \cup {HostBinop(op, l, r) : op \in Binops, l, r \in HostLeaves}

HostNested ==
    LET one == HostConst("Int")
        lt == HostBinop("Lt", one, HostPrim(HostInt))
        sum == HostBinop("Add", one, one)
    IN {HostUnop(op, e) : op \in Unops, e \in {lt, sum}}
        \cup {HostBinop(op, l, r) : op \in Binops, l, r \in {lt, sum}}

HostExprs == HostLeaves \cup HostOps \cup HostNested

InitExpect ==
    /\ ParseIdle
    /\ arg \in {[fn |-> "ty_of", ctx |-> HostCtx, expr |-> e] :
                    e \in HostExprs}
               \cup {[fn |-> "expect_ty", ctx |-> HostCtx, expr |-> e,
                      expected |-> t] : e \in HostExprs, t \in HostTypes}
    /\ env = <<>>
    /\ out = Pending
    /\ next = 0

TyOf ==
    /\ arg.fn = "ty_of"
    /\ out = Pending
    /\ out' = ty_of(arg.ctx, arg.expr)
    /\ UNCHANGED <<psr, arg, env, next>>

ExpectTy ==
    /\ arg.fn = "expect_ty"
    /\ out = Pending
    /\ out' = expect_ty(arg.ctx, arg.expr, arg.expected)
    /\ UNCHANGED <<psr, arg, env, next>>

NextExpect == TyOf \/ ExpectTy

SpecExpect == InitExpect /\ [][NextExpect]_vars

\* The type of a constant or primitive expression.
LeafType(e) == IF e.tag = "Const" THEN HostType(e.k) ELSE e.repr

Typed(e) == e.tag \in {"Const", "Prim"}

\* What an operator that requires operands of type t and has type res gives
\* for operands of the types found.
Requires(operands, found, t, res) ==
    LET wrong == {i \in 1..Len(operands) : found[i] # t}
    IN IF wrong = {} THEN Ok(res)
       ELSE Err(Mismatch(operands[Min(wrong)], Actual(t), found[Min(wrong)]))

\* C20: expect_ty succeeds, with the inferred type, iff the inferred type is
\* the expected one, and otherwise fails with the Mismatch whose found is the
\* inferred type and whose expected is the expected type, for the expression
\* checked.  So over operands that have a type: negation and arithmetic are
\* Int when every operand is Int, not / and / or are Bool when every operand
\* is Bool, the ordering comparisons are Bool when every operand is Int, and
\* otherwise the result is the Mismatch of the first operand of another type.
TypeExpectation ==
    /\ (arg.fn = "expect_ty" /\ out.kind # "Pending")
        => LET inferred == ty_of(arg.ctx, arg.expr)
           IN /\ out.kind \in {"Ok", "Err"}
              /\ inferred.kind # "Ok" => out = inferred
              /\ (inferred.kind = "Ok" /\ inferred.val = arg.expected)
                    => out = Ok(inferred.val)
              /\ (inferred.kind = "Ok" /\ inferred.val # arg.expected)
                    => out = Err(Mismatch(arg.expr, Actual(arg.expected),
                                          inferred.val))
              /\ Typed(arg.expr)
                    => out = IF LeafType(arg.expr) = arg.expected
                             THEN Ok(arg.expected)
                             ELSE Err(Mismatch(arg.expr, Actual(arg.expected),
                                               LeafType(arg.expr)))
    /\ (arg.fn = "ty_of" /\ out.kind # "Pending")
        => LET e == arg.expr
           IN /\ Typed(e) => out = Ok(LeafType(e))
              /\ (e.tag = "Unop" /\ Typed(e.operand))
                    => out = Requires(<<e.operand>>, <<LeafType(e.operand)>>,
                                      IF e.op = "Neg" THEN HostInt ELSE HostBool,
                                      IF e.op = "Neg" THEN HostInt ELSE HostBool)
              /\ (e.tag = "Binop" /\ Typed(e.lhs) /\ Typed(e.rhs)
                    /\ e.op \notin {"Eq", "Ne"})
                    => out = Requires(<<e.lhs, e.rhs>>,
                                      <<LeafType(e.lhs), LeafType(e.rhs)>>,
                                      IF e.op \in {"Or", "And"}
                                      THEN HostBool ELSE HostInt,
                                      IF e.op \in {"Add", "Sub", "Mul", "Div"}
                                      THEN HostInt ELSE HostBool)

TypeExpectationWitness ==
    /\ arg.fn = "expect_ty"
    /\ arg.expr = HostUnop("Neg", HostPrim(HostU8))
    /\ arg.expected = HostInt
    /\ out = Err(Mismatch(HostPrim(HostU8), Actual(HostInt), HostU8))

---------------------------------------------------------------------------
(***************************************************************************)
(* Delaboration, crates/ddl/src/surface/delaborate.rs, and the             *)
(* documentation back-end, crates/ddl-compile-doc/src/lib.rs.              *)
(*                                                                         *)
(* A core term is one record shape for every variant that delaborate.rs    *)
(* matches on: tag is the variant, text its label, universe, boolean or    *)
(* number, args its subterms.  A surface term has the same shape; an       *)
(* annotation of the surface language stores no span and computes it.      *)
(*                                                                         *)
(* delaborate_term_prec calls itself once per subterm, and the calls are   *)
(* the frames of a stack, env: a frame holds what is delaborated, the      *)
(* precedence, and the results of the calls made for it so far.  A call    *)
(* and a return are one step each, so that a term may nest as deep as the  *)
(* precedence counter can count.  A term that deep is held as a chain: n   *)
(* annotations, each the term of the one around it, are the number n.      *)
(***************************************************************************)

core_term(tag, span, text, args) ==
    [tag |-> tag, span |-> span, text |-> text, args |-> args]

surface_term(tag, span, text, args) ==
    [tag |-> tag, span |-> span, text |-> text, args |-> args]

\* Span::initial()
SpanInitial == Span(0, 0)

CoreItem == core_term("Item", Span(1, 2), "Foo", <<>>)

CoreU8 == core_term("U8Type", Span(3, 5), "", <<>>)

\* The term Ann(Ann(... Ann(Foo, U8) ..., U8), U8) of n annotations.
AnnChain(n) == [tag |-> "Ann", span |-> SpanInitial, text |-> "", chain |-> n]

\* The subterms of a core term.
TermArgs(term) ==
    IF "chain" \in DOMAIN term
    THEN <<IF term.chain = 1 THEN CoreItem ELSE AnnChain(term.chain - 1),
           CoreU8>>
    ELSE term.args

\* surface::Term::span: an annotation spans from its term to its type.
RECURSIVE term_span(_)
term_span(t) ==
    IF t.tag = "Ann"
    THEN LET term == term_span(t.args[1])
             type == term_span(t.args[2])
         IN  Span(IF term.lo <= type.lo THEN term.lo ELSE type.lo,
                  IF term.hi >= type.hi THEN term.hi ELSE type.hi)
    ELSE t.span

\* The names that the arms for the primitive types write.
PrimitiveNames ==
    [ U8Type |-> "U8", U16LeType |-> "U16Le", U16BeType |-> "U16Be",
      U32LeType |-> "U32Le", U32BeType |-> "U32Be",
      U64LeType |-> "U64Le", U64BeType |-> "U64Be",
      S8Type |-> "S8", S16LeType |-> "S16Le", S16BeType |-> "S16Be",
      S32LeType |-> "S32Le", S32BeType |-> "S32Be",
      S64LeType |-> "S64Le", S64BeType |-> "S64Be",
      F32LeType |-> "F32Le", F32BeType |-> "F32Be",
      F64LeType |-> "F64Le", F64BeType |-> "F64Be",
      BoolType |-> "Bool", IntType |-> "Int",
      F32Type |-> "F32", F64Type |-> "F64" ]

\* prec is a u8.
PrecWidth == 256

delaborate_paren_prec(cond, term) ==
    IF cond THEN surface_term("Paren", term_span(term), "", <<term>>)
    ELSE term

\* The precedence that an arm passes to the calls for its subterms: the
\* arm for Ann passes prec + 1, the arm for BoolElim calls delaborate_term.
child_prec(term, prec) ==
    IF term.tag = "Ann" THEN (prec + 1) % PrecWidth ELSE 0

\* prec + 1 leaves the range of a u8: a build with overflow checks aborts
\* there, a build without them wraps to 0.
prec_overflows(term, prec) == term.tag = "Ann" /\ prec + 1 >= PrecWidth

\* An arm of delaborate_term_prec, given the results of its calls.
delaborate_term_prec(term, prec, done) ==
    CASE term.tag = "Item" -> surface_term("Name", term.span, term.text, <<>>)
      [] term.tag = "Ann" ->
            delaborate_paren_prec(prec > 0,
                surface_term("Ann", SpanInitial, "", <<done[1], done[2]>>))
      [] term.tag = "Universe" ->
            surface_term("Name", term.span, term.text, <<>>)
      [] term.tag \in DOMAIN PrimitiveNames ->
            surface_term("Name", term.span, PrimitiveNames[term.tag], <<>>)
      [] term.tag = "BoolConst" ->
            surface_term("Name", term.span, term.text, <<>>)
      [] term.tag \in {"IntConst", "F32Const", "F64Const"} ->
            surface_term("NumberLiteral", term.span, term.text, <<>>)
      [] term.tag = "BoolElim" ->
            surface_term("If", term.span, "", <<done[1], done[2], done[3]>>)
      [] term.tag = "Error" -> surface_term("Error", term.span, "", <<>>)

\* core::Item and surface::Item; doc is the sequence of doc lines.
core_alias(span, doc, name, term) ==
    [item |-> "Alias", span |-> span, doc |-> doc, name |-> name,
     term |-> term]

core_struct(span, doc, name, fields) ==
    [item |-> "Struct", span |-> span, doc |-> doc, name |-> name,
     fields |-> fields]

core_field(doc, name, term) == [doc |-> doc, name |-> name, term |-> term]

core_module(file_id, doc, items) ==
    [file_id |-> file_id, doc |-> doc, items |-> items]

\* The terms that delaborate_item passes to delaborate_term, in order.
item_terms(item) ==
    IF item.item = "Struct"
    THEN [i \in 1..Len(item.fields) |-> item.fields[i].term]
    ELSE IF item.term.tag = "Ann" THEN TermArgs(item.term)
         ELSE <<item.term>>

\* A field that loses its doc lines.
delaborate_field_undocumented(ty_field, term) ==
    [doc |-> <<>>, name |-> <<SpanInitial, ty_field.name>>, term |-> term]

\* The closure over the fields of a struct, given the delaborated term.
delaborate_field(ty_field, term) ==
    [doc |-> ty_field.doc, name |-> <<SpanInitial, ty_field.name>>,
     term |-> term]

\* delaborate_item, given the results of its calls.
delaborate_item(item, done) ==
    IF item.item = "Alias"
    THEN [item |-> "Alias", span |-> item.span, doc |-> item.doc,
          name |-> <<SpanInitial, item.name>>,
          ty |-> IF item.term.tag = "Ann" THEN Some(done[2]) ELSE None,
          term |-> done[1]]
    ELSE [item |-> "Struct", span |-> item.span, doc |-> item.doc,
          name |-> <<SpanInitial, item.name>>,
          fields |-> [i \in 1..Len(item.fields) |->
                         delaborate_field(item.fields[i], done[i])]]

\* delaborate_module, given the results of its calls.
delaborate_module(module, done) ==
    [file_id |-> module.file_id, doc |-> module.doc, items |-> done]

\* What a call of fn delaborates by calls of its own.
Callees(fn, of) ==
    CASE fn = "delaborate_module" -> of.items
      [] fn = "delaborate_item" -> item_terms(of)
      [] fn = "delaborate_term_prec" -> TermArgs(of)

\* A frame of the stack: a call of fn for the module, item or term of, at
\* precedence prec, with the calls that it has still to make in todo and
\* the results of those it has made in done.  The frame of a term holds
\* its subterms in todo only.
Frame(fn, of, prec) ==
    [fn |-> fn,
     of |-> IF fn = "delaborate_term_prec"
            THEN core_term(of.tag, of.span, of.text, <<>>) ELSE of,
     prec |-> prec, todo |-> Callees(fn, of), done |-> <<>>]

\* What the call of a frame returns.
Returned(frame) ==
    CASE frame.fn = "delaborate_module" ->
            delaborate_module(frame.of, frame.done)
      [] frame.fn = "delaborate_item" -> delaborate_item(frame.of, frame.done)
      [] frame.fn = "delaborate_term_prec" ->
            delaborate_term_prec(frame.of, frame.prec, frame.done)

\* ddl-compile-doc.  A line is the sequence of the pieces that its format
\* string puts together; a writer holds the lines written so far and the
\* number of the write at which it fails (0: it never fails).
IoError == [tag |-> "io::Error"]

doc_struct(doc, name) == [item |-> "Struct", doc |-> doc, name |-> name]

Header ==
    << <<"<!--">>,
       <<"  This file is automatically @generated by ",
         "CARGO_PKG_NAME", " ", "CARGO_PKG_VERSION">>,
       <<"  It is not intended for manual editing.">>,
       <<"-->">> >>

\* One turn of the loop over the items.
compile_item(item) ==
    << <<>>, <<"## ", item.name>> >>
    \o (IF item.doc # "" THEN << <<>>, <<item.doc>> >> ELSE <<>>)

RECURSIVE compile_items(_)
compile_items(items) ==
    IF items = <<>> THEN <<>>
    ELSE compile_item(Head(items)) \o compile_items(Tail(items))

compile_module(writer, module) ==
    LET lines == Header \o compile_items(module.items)
        done == IF writer.fail_at \in 1..Len(lines)
                THEN writer.fail_at - 1 ELSE Len(lines)
    IN  [res |-> IF done = Len(lines) THEN Ok(<<>>) ELSE Err(IoError),
         writer |-> [written |-> writer.written \o SubSeq(lines, 1, done),
                     fail_at |-> writer.fail_at]]

\* Inputs.
CoreLeaves ==
    { CoreItem, CoreU8,
      core_term("IntConst", Span(6, 7), "1", <<>>),
      core_term("Error", Span(8, 9), "", <<>>) }

CoreTrue == core_term("BoolConst", Span(10, 14), "true", <<>>)

CoreAnn(term, type) == core_term("Ann", SpanInitial, "", <<term, type>>)

CoreShallow ==
    CoreLeaves
    \cup {CoreAnn(l, r) : l \in CoreLeaves, r \in CoreLeaves}
    \cup {core_term("BoolElim", Span(0, 20), "", <<CoreTrue, l, r>>) :
            l \in CoreLeaves, r \in CoreLeaves}

CoreTerms ==
    CoreShallow
    \cup {CoreTrue, core_term("Universe", Span(0, 4), "Type", <<>>),
          core_term("F64BeType", Span(0, 5), "", <<>>),
          core_term("F32Const", Span(0, 3), "1.5", <<>>)}
    \cup {CoreAnn(l, r) : l \in CoreShallow, r \in CoreShallow}
    \cup {core_term("BoolElim", Span(0, 40), "", <<c, l, r>>) :
            c \in {CoreTrue, CoreAnn(CoreTrue, CoreTrue)},
            l \in CoreShallow, r \in CoreLeaves}
    \cup {AnnChain(3), AnnChain(PrecWidth - 1), AnnChain(PrecWidth),
          AnnChain(PrecWidth + 1)}

DocLines == { <<>>, <<" The first line.", " The second line.">> }

CoreFields ==
    LET len == core_field(<<" The length.">>, "len", CoreU8)
        data == core_field(<<>>, "data", CoreAnn(CoreItem, CoreU8))
    IN  { <<>>, <<len>>, <<len, data>>, <<data, len>> }

CoreItems ==
    {core_alias(Span(0, 9), doc, "Alias", term) :
        doc \in DocLines,
        term \in {CoreItem, CoreAnn(CoreItem, CoreU8),
                  CoreAnn(CoreAnn(CoreItem, CoreU8), CoreU8)}}
    \cup {core_struct(Span(10, 19), doc, "Struct", fields) :
            doc \in DocLines, fields \in CoreFields}

CoreModules ==
    {core_module(0, <<" The module.">>, items) :
        items \in SeqsUpTo(CoreItems, MaxDefs)}

DocModules ==
    {core_module(0, "", items) :
        items \in SeqsUpTo({doc_struct(doc, name) :
                              doc \in {"", " The docs."},
                              name \in {"Foo", "Bar"}}, MaxDefs)}

Writers(module) ==
    {[written |-> <<>>, fail_at |-> n] :
        n \in 0..Len(Header \o compile_items(module.items))}

\* A call of delaborate_term, of delaborate_module or of compile_module,
\* in a build with or without overflow checks.
InitDelab ==
    /\ ParseIdle
    /\ arg \in {[fn |-> "delaborate_term", term |-> t,
                 overflow_checks |-> b] :
                   t \in CoreTerms, b \in BOOLEAN}
          \cup {[fn |-> "delaborate_module", module |-> m,
                 overflow_checks |-> b] :
                   m \in CoreModules, b \in BOOLEAN}
          \cup UNION {{[fn |-> "compile_module", writer |-> w, module |-> m] :
                          w \in Writers(m)} : m \in DocModules}
    /\ out = Pending
    /\ env = <<>>
    /\ next = 0

\* delaborate_term(term) calls delaborate_term_prec(term, 0).
DelaborateTerm ==
    /\ arg.fn = "delaborate_term" /\ out = Pending /\ env = <<>>
    /\ env' = <<Frame("delaborate_term_prec", arg.term, 0)>>
    /\ UNCHANGED <<psr, arg, out, next>>

DelaborateModule ==
    /\ arg.fn = "delaborate_module" /\ out = Pending /\ env = <<>>
    /\ env' = <<Frame("delaborate_module", arg.module, 0)>>
    /\ UNCHANGED <<psr, arg, out, next>>

\* The call at the top of the stack makes its next call: delaborate_module
\* calls delaborate_item, delaborate_item calls delaborate_term, and
\* delaborate_term_prec calls itself.
DelaborateCall ==
    /\ env # <<>>
    /\ LET top == env[Len(env)]
           callee == Head(top.todo)
           rest == SubSeq(env, 1, Len(env) - 1)
       IN  /\ top.todo # <<>>
           /\ ~(/\ top.fn = "delaborate_term_prec"
                /\ arg.overflow_checks
                /\ prec_overflows(top.of, top.prec))
           /\ env' = Append(Append(rest, [top EXCEPT !.todo = Tail(@)]),
                  CASE top.fn = "delaborate_module" ->
                          Frame("delaborate_item", callee, 0)
                    [] top.fn = "delaborate_item" ->
                          Frame("delaborate_term_prec", callee, 0)
                    [] top.fn = "delaborate_term_prec" ->
                          Frame("delaborate_term_prec", callee,
                                child_prec(top.of, top.prec)))
    /\ UNCHANGED <<psr, arg, out, next>>

\* prec + 1 overflows in a build with overflow checks: the program aborts.
DelaborateOverflow ==
    /\ env # <<>>
    /\ LET top == env[Len(env)]
       IN  /\ top.todo # <<>>
           /\ top.fn = "delaborate_term_prec"
           /\ arg.overflow_checks
           /\ prec_overflows(top.of, top.prec)
    /\ out' = Panic
    /\ env' = <<>>
    /\ UNCHANGED <<psr, arg, next>>

\* The call at the top of the stack returns, to its caller or to out.
DelaborateReturn ==
    /\ env # <<>>
    /\ LET top == env[Len(env)]
           rest == SubSeq(env, 1, Len(env) - 1)
       IN  /\ top.todo = <<>>
           /\ IF rest = <<>>
              THEN out' = Returned(top) /\ env' = <<>>
              ELSE /\ env' = [rest EXCEPT ![Len(rest)].done =
                                             Append(@, Returned(top))]
                   /\ out' = out
    /\ UNCHANGED <<psr, arg, next>>

CompileModule ==
    /\ arg.fn = "compile_module" /\ out = Pending
    /\ out' = compile_module(arg.writer, arg.module)
    /\ UNCHANGED <<psr, arg, env, next>>

NextDelab ==
    \/ DelaborateTerm
    \/ DelaborateModule
    \/ DelaborateCall
    \/ DelaborateOverflow
    \/ DelaborateReturn
    \/ CompileModule

SpecDelab == InitDelab /\ [][NextDelab]_vars

---------------------------------------------------------------------------
(***************************************************************************)
(* Properties of delaborate_module and of compile_module.                  *)
(***************************************************************************)

\* The lines written after the header, and the places of the headings.
Body(written) == SubSeq(written, Len(Header) + 1, Len(written))

IsHeading(line) == Len(line) = 2 /\ line[1] = "## "

Headings(body) == {p \in 1..Len(body) : IsHeading(body[p])}

\* The place of the k-th heading.
HeadingAt(body, k) ==
    CHOOSE p \in Headings(body) :
        Cardinality({q \in Headings(body) : q <= p}) = k

\* The surface item keeps the kind, the name and the doc lines of the core
\* item, and a struct keeps its fields, their names and their doc lines.
ItemKept(core, surface) ==
    /\ surface.item = core.item
    /\ surface.name[2] = core.name
    /\ surface.doc = core.doc
    /\ core.item = "Struct" =>
          /\ Len(surface.fields) = Len(core.fields)
          /\ \A j \in 1..Len(core.fields) :
                /\ surface.fields[j].name[2] = core.fields[j].name
                /\ surface.fields[j].doc = core.fields[j].doc

\* C21: the module that delaborate_module returns has as many items as the
\* core module, in the same order, each with its kind, name and doc lines,
\* and each struct with its fields in order with their names and doc lines;
\* compile_module, when its writer takes every line, writes one heading per
\* struct in item order, each non-empty doc text unchanged right under its
\* heading, and no other doc text.
DocumentationPreserved ==
    /\ (arg.fn = "delaborate_module" /\ out # Pending /\ out # Panic) =>
          /\ Len(out.items) = Len(arg.module.items)
          /\ \A i \in 1..Len(arg.module.items) :
                ItemKept(arg.module.items[i], out.items[i])
    /\ (arg.fn = "compile_module" /\ out # Pending /\ out.res.kind = "Ok") =>
          LET items == arg.module.items
              body == Body(out.writer.written)
          IN  /\ Cardinality(Headings(body)) = Len(items)
              /\ \A k \in 1..Len(items) :
                    LET p == HeadingAt(body, k)
                    IN  /\ body[p][2] = items[k].name
                        /\ items[k].doc # "" =>
                              /\ p + 2 <= Len(body)
                              /\ body[p + 1] = <<>>
                              /\ body[p + 2] = <<items[k].doc>>
              /\ Cardinality({p \in 1..Len(body) : Len(body[p]) = 1})
                    = Cardinality({k \in 1..Len(items) : items[k].doc # ""})

\* A documented struct with two documented or undocumented fields has been
\* delaborated after a documented alias.
DocumentationPreservedWitness ==
    /\ arg.fn = "delaborate_module" /\ out # Pending /\ out # Panic
    /\ Len(out.items) = 2
    /\ out.items[1].item = "Alias" /\ out.items[1].doc # <<>>
    /\ out.items[2].item = "Struct" /\ out.items[2].doc # <<>>
    /\ Len(out.items[2].fields) = 2
    /\ out.items[2].fields[1].doc = <<" The length.">>

---------------------------------------------------------------------------
(***************************************************************************)
(* Properties of K-SUM.                                                    *)
(***************************************************************************)

\* The elements of a union that are not well-kinded on their own, in the
\* environment of the union.
IllKinded(e, t) == {i \in 1..Len(t.tys) : kind_of(e, t.tys[i]).kind # "Ok"}

\* C22: a union is well-kinded iff every one of its elements is well-kinded
\* in the environment of the union; otherwise kind_of returns what the
\* first element in declaration order that is not well-kinded returns,
\* whatever the elements after it are.
UnionFirstError ==
    (arg.fn = "kind_of" /\ arg.ty.tag = "Union" /\ out # Pending) =>
        /\ out = Ok(KindType) <=> IllKinded(env, arg.ty) = {}
        /\ IllKinded(env, arg.ty) # {} =>
              out = kind_of(env, arg.ty.tys[Min(IllKinded(env, arg.ty))])

\* A union of an unbound name and of an array whose size aborts the checker
\* has returned the error of the name.
UnionFirstErrorWitness ==
    /\ arg.fn = "kind_of" /\ arg.ty.tag = "Union" /\ out # Pending
    /\ IllKinded(env, arg.ty) = {1, 2}
    /\ kind_of(env, arg.ty.tys[2]) = Panic
    /\ out = Err(UnboundType(ElemSpan(1), "Foo"))

---------------------------------------------------------------------------
(***************************************************************************)
(* What check_defs leaves in the environment.                              *)
(***************************************************************************)

Max(S) == CHOOSE i \in S : \A j \in S : i >= j

\* The definitions of name n among the first k - 1.
DefsOf(n, k) == {j \in 1..(k - 1) : arg.defs[j].name = n}

\* C23: when check_defs has failed on a definition, the environment it was
\* called on holds the definitions before that one and none of that one and
\* the later ones (a name that only they define is unbound); when it has
\* succeeded the environment holds every
\* definition; a name is bound to the last of the definitions of it that
\* were added, and a name bound at the call and not defined remains bound
\* as it was.
DefsNotAtomic ==
    (arg.fn = "check_defs" /\ out # Pending) =>
        LET k == IF out.kind = "Ok" THEN Len(arg.defs) + 1 ELSE next
        IN  /\ k \in 1..(Len(arg.defs) + 1)
            /\ out.kind # "Ok" => out = kind_of(env, arg.defs[k].ty)
            /\ \A j \in 1..(k - 1) : arg.defs[j].name \in TyNames(env)
            /\ \A n \in TyNames(arg.self) \cup DefNames :
                  lookup_ty(env, n) =
                      IF DefsOf(n, k) = {} THEN lookup_ty(arg.self, n)
                      ELSE Some(arg.defs[Max(DefsOf(n, k))].ty)
            /\ \A j \in k..Len(arg.defs) :
                  (/\ DefsOf(arg.defs[j].name, k) = {}
                   /\ arg.defs[j].name \notin TyNames(arg.self))
                      => arg.defs[j].name \notin TyNames(env)
            /\ TyNames(arg.self) \subseteq TyNames(env)

\* check_defs has failed on the second of two definitions and has left the
\* first in an environment that did not bind its name.
DefsNotAtomicWitness ==
    /\ arg.fn = "check_defs" /\ out.kind = "Err"
    /\ Len(arg.defs) = 2 /\ next = 2
    /\ arg.defs[1].name \notin TyNames(arg.self)
    /\ lookup_ty(env, arg.defs[1].name) = Some(arg.defs[1].ty)
    /\ lookup_ty(env, "Foo") = Some(u32)

---------------------------------------------------------------------------
(***************************************************************************)
(* type_of on its own.                                                     *)
(***************************************************************************)

\* An environment that binds one variable per type of operand.
TypeOfEnv ==
    add_binding(add_binding(add_binding(add_binding(add_binding(add_binding(
        EnvDefault,
        "a", u8), "b", u32), "c", i8), "d", TypeConst("U", 4, "Big")),
        "e", bool), "f", StructOf(<<>>))

ExprLeaves ==
    {ExprUInt(Span(0, 1), 1), ExprBool(Span(0, 4), TRUE)}
        \cup {ExprVar(Span(0, 1), n) : n \in {"a", "b", "c", "d", "e", "f", "z"}}

UnopNames == {"Not", "Neg"}
IntBinops == {"Add", "Sub", "Mul", "Div"}
ComparisonBinops == {"Eq", "Ne", "Le", "Lt", "Gt", "Ge"}
BinopNames == {"Or", "And"} \cup ComparisonBinops \cup IntBinops

ExprOperands ==
    ExprLeaves
        \cup {ExprUnop(Span(0, 2), op, v) : op \in UnopNames, v \in ExprLeaves}
        \cup {ExprBinop(Span(0, 5), op, l, r) :
                op \in {"Add", "Lt", "And"},
                l \in {ExprUInt(Span(0, 1), 1), ExprVar(Span(0, 1), "a")},
                r \in {ExprUInt(Span(0, 1), 1), ExprVar(Span(0, 1), "a"),
                       ExprVar(Span(0, 1), "e")}}

Exprs ==
    ExprOperands
        \cup {ExprBinop(Span(0, 5), op, l, r) :
                op \in BinopNames, l \in ExprLeaves, r \in ExprLeaves}
        \cup {ExprBinop(Span(0, 9), op, l, r) :
                op \in {"Add", "Div", "Lt", "Eq", "Or"},
                l \in ExprOperands, r \in ExprOperands}
        \cup {ExprUnop(Span(0, 9), op, v) : op \in UnopNames, v \in ExprOperands}

InitTypeOf ==
    /\ ParseIdle
    /\ arg \in {[fn |-> "type_of", self |-> e, expr |-> x] :
                    e \in {EnvDefault, TypeOfEnv}, x \in Exprs}
    /\ env = arg.self
    /\ out = Pending
    /\ next = 0

TypeOf ==
    /\ arg.fn = "type_of"
    /\ out = Pending
    /\ out' = type_of(env, arg.expr)
    /\ UNCHANGED <<psr, arg, env, next>>

SpecTypeOf == InitTypeOf /\ [][TypeOf]_vars

\* The variables of an expression.
RECURSIVE ExprVars(_)
ExprVars(expr) ==
    CASE expr.tag \in {"Bool", "UInt"} -> {}
      [] expr.tag = "Var" -> {expr.name}
      [] expr.tag = "Unop" -> ExprVars(expr.value)
      [] expr.tag = "Binop" -> ExprVars(expr.lhs) \cup ExprVars(expr.rhs)

\* The variables that an environment binds.
BoundVars(e) == UNION {DOMAIN e[i].bindings : i \in 1..Len(e)}

\* C24: type_of of an expression whose variables are all bound returns
\* Ok(type) or Err(TypeError), and does not abort.
TypeOfTotal ==
    (/\ arg.fn = "type_of" /\ out # Pending
     /\ ExprVars(arg.expr) \subseteq BoundVars(env))
        => out.kind \in {"Ok", "Err"}

\* The fixed-width integer types.
FixedWidth(t) == IsConst(t, {"U", "I"})

\* C25: for an operator + - * / whose operands have the same fixed-width
\* integer type the type is that type, and when one operand has the type of
\* an unsuffixed literal and the other a fixed-width integer type the type
\* is that of the other operand; under the same conditions the type of a
\* comparison is Bool; and when an operator has a type, it has the same
\* type with its operands swapped.
IntOperatorTyping ==
    (/\ arg.fn = "type_of" /\ out # Pending
     /\ arg.expr.tag = "Binop"
     /\ arg.expr.op \in IntBinops \cup ComparisonBinops)
        => LET l == type_of(env, arg.expr.lhs)
               r == type_of(env, arg.expr.rhs)
               swapped == type_of(env, ExprBinop(arg.expr.span, arg.expr.op,
                                                 arg.expr.rhs, arg.expr.lhs))
               typed(t) == out = IF arg.expr.op \in IntBinops
                                 THEN Ok(t) ELSE Ok(bool)
           IN  /\ (l.kind = "Ok" /\ r.kind = "Ok") =>
                     /\ (FixedWidth(l.val) /\ l.val = r.val) => typed(l.val)
                     /\ (FixedWidth(l.val) /\ r.val = unknown_int)
                            => typed(l.val)
                     /\ (l.val = unknown_int /\ FixedWidth(r.val))
                            => typed(r.val)
               /\ out.kind = "Ok" => swapped = out
               /\ swapped.kind = "Ok" => out = swapped

\* 1 + a has been typed where a is a u8.
IntOperatorTypingWitness ==
    /\ arg.fn = "type_of" /\ env = TypeOfEnv
    /\ arg.expr.tag = "Binop" /\ arg.expr.op = "Add"
    /\ arg.expr.lhs = ExprUInt(Span(0, 1), 1)
    /\ arg.expr.rhs = ExprVar(Span(0, 1), "a")
    /\ out = Ok(u8)

---------------------------------------------------------------------------
(***************************************************************************)
(* Arrays of no element, of elements that are no format, and of a length   *)
(* that is no integer literal.                                             *)
(***************************************************************************)

\* A literal length above 0 that to_usize accepts.
PositiveLen(len) ==
    IsIntLiteral(len) /\ ~len.neg /\ len.mag # <<>> /\ FitsUsize(len)

BadIndexAndBoundVar ==
    [][/\ (pc = "call" /\ IsArrayType(ty) /\ ~IsIntLiteral(ty.spine[1]))
            => /\ pc' = "ret" /\ ret' = Err(BadArrayIndex(ty.spine[1]))
               /\ pos' = pos /\ reads' = reads /\ stack' = stack
       /\ (pc = "call" /\ IsHeadVar(ty))
            => /\ pc' = "ret"
               /\ ret' = Err(Internal([tag |-> "UnexpectedBoundVar",
                                       var |-> ty.name]))
               /\ pos' = pos /\ reads' = reads /\ stack' = stack]_vars

\* An array whose length is a float literal has been refused on a source
\* that is not empty.
BadIndexAndBoundVarWitness ==
    /\ root = ArrayT(FloatLit, Prim("U8"))
    /\ bytes # <<>>
    /\ Done
    /\ ret = Err(BadArrayIndex(FloatLit))
    /\ pos = 0 /\ reads = <<>>

---------------------------------------------------------------------------
(***************************************************************************)
(* Kinding of the binary types, kind_of of syntax/check/mod.rs, here       *)
(* binary_kind_of.  The arms for Interp, Assert and Struct need            *)
(* Type::repr and simplify_ty on their way and are left out.               *)
(***************************************************************************)

\* binary::Kind
KindArrow(arity) == [tag |-> "Arrow", arity |-> arity]

\* binary::Type
BinaryFree(name) == [tag |-> "Free", name |-> name]
BinaryBound(name, i) == [tag |-> "Bound", name |-> name, i |-> i]
BinaryU8 == [tag |-> "U8"]
BinaryArray(elem_ty, size_expr) ==
    [tag |-> "Array", elem |-> elem_ty, size |-> size_expr]
BinaryAbs(param_tys, body_ty) ==
    [tag |-> "Abs", params |-> param_tys, body |-> body_ty]
BinaryUnion(fields) == [tag |-> "Union", fields |-> fields]
BinaryApp(fn_ty, arg_tys) == [tag |-> "App", fn |-> fn_ty, args |-> arg_tys]

\* check::KindError
KindUnboundVariable(t, name) ==
    [err |-> "UnboundVariable", ty |-> t, name |-> name]
TypeBindingExpected(t, found) ==
    [err |-> "TypeBindingExpected", ty |-> t, found |-> found]
KindMismatch(t, expected, found) ==
    [err |-> "Mismatch", ty |-> t, expected |-> expected, found |-> found]
KindErrorType(err) == [err |-> "Type", src |-> err]

\* Scope::TypeAbs of parameters, each at kind Type, and Scope::TypeDef of a
\* definition of a kind; Context::extend puts a scope innermost.
TypeAbsScope(params) ==
    [scope |-> "TypeAbs", params |-> params, kind |-> KindType]
TypeDefScope(kind) == [scope |-> "TypeDef", kind |-> kind]
ctx_extend(ctx, scope) == <<scope>> \o ctx

\* Context::lookup_kind gives the kind of a variable bound by a scope of
\* types, and the scope itself otherwise.
ctx_lookup_kind(ctx, i) ==
    IF ctx[i + 1].scope \in {"TypeAbs", "TypeDef"}
    THEN Ok(ctx[i + 1].kind) ELSE Err(ctx[i + 1])

RECURSIVE binary_kind_of(_, _)

expect_kind(ctx, t, expected) ==
    LET found == binary_kind_of(ctx, t)
    IN IF found.kind # "Ok" THEN found
       ELSE IF found.val = expected THEN Ok(found.val)
       ELSE Err(KindMismatch(t, expected, found.val))

expect_ty_kind(ctx, t) ==
    IF expect_kind(ctx, t, KindType).kind = "Ok" THEN Ok(Unit)
    ELSE expect_kind(ctx, t, KindType)

\* `for t in tys { expect_ty_kind(ctx, t)?; } Ok(res)`
RECURSIVE expect_ty_kinds(_, _, _)
expect_ty_kinds(ctx, tys, res) ==
    IF tys = <<>> THEN Ok(res)
    ELSE IF expect_ty_kind(ctx, Head(tys)).kind # "Ok"
         THEN expect_ty_kind(ctx, Head(tys))
    ELSE expect_ty_kinds(ctx, Tail(tys), res)

\* Type::Abs: `let mut ctx = ctx.clone(); expect_ty_kind(&ctx, &body_ty)?;`
\* comes first, and `ctx.extend(Scope::TypeAbs(..))` after it, on the clone
\* that is dropped at the return: the body is checked in the context of the
\* call.
kind_of_abs(ctx, t) ==
    IF expect_ty_kind(ctx, t.body).kind # "Ok"
    THEN expect_ty_kind(ctx, t.body)
    ELSE Ok(KindArrow(Len(t.params)))

\* Type::App
kind_of_app(ctx, t) ==
    IF expect_kind(ctx, t.fn, KindArrow(Len(t.args))).kind # "Ok"
    THEN expect_kind(ctx, t.fn, KindArrow(Len(t.args)))
    ELSE expect_ty_kinds(ctx, t.args, KindType)

binary_kind_of(ctx, t) ==
    CASE t.tag = "Free" -> Err(KindUnboundVariable(t, t.name))
      [] t.tag = "Bound" ->
            IF ctx_lookup_kind(ctx, t.i).kind = "Ok"
            THEN ctx_lookup_kind(ctx, t.i)
            ELSE Err(TypeBindingExpected(t, ctx_lookup_kind(ctx, t.i).err))
      [] t.tag = "U8" -> Ok(KindType)
      [] t.tag = "Array" ->
            IF expect_ty_kind(ctx, t.elem).kind # "Ok"
            THEN expect_ty_kind(ctx, t.elem)
            ELSE IF expect_ty(ctx, t.size, HostInt).kind = "Err"
            THEN Err(KindErrorType(expect_ty(ctx, t.size, HostInt).err))
            ELSE IF expect_ty(ctx, t.size, HostInt).kind # "Ok"
            THEN expect_ty(ctx, t.size, HostInt)
            ELSE Ok(KindType)
      [] t.tag = "Abs" -> kind_of_abs(ctx, t)
      [] t.tag = "Union" ->
            expect_ty_kinds(ctx, [i \in 1..Len(t.fields) |-> t.fields[i].value],
                            KindType)
      [] t.tag = "App" -> kind_of_app(ctx, t)

\* Inputs: contexts of two scopes, and types whose bound variables name the
\* scope 0 or 1.
BinaryCtxs ==
    { <<ExprScope(HostInt), TypeDefScope(KindType)>>,
      <<TypeDefScope(KindType), ExprScope(HostInt)>>,
      <<TypeDefScope(KindArrow(1)), TypeDefScope(KindArrow(2))>> }

BinaryLeaves ==
    {BinaryU8, BinaryFree("T"), BinaryBound("a", 0), BinaryBound("b", 1)}

BinaryParams == {<<>>, <<"a">>, <<"a", "b">>}

BinaryPlain ==
    BinaryLeaves
        \cup {BinaryArray(t, e) :
                t \in {BinaryU8, BinaryBound("a", 0)},
                e \in {HostConst("Int"), HostConst("Bool"), HostBound("n", 0)}}
        \cup {BinaryUnion(<<[name |-> "l", value |-> l],
                            [name |-> "r", value |-> r]>>) :
                l \in BinaryLeaves, r \in BinaryLeaves}

BinaryAbss ==
    {BinaryAbs(ps, body) : ps \in BinaryParams, body \in BinaryPlain}

BinaryTypes ==
    BinaryPlain \cup BinaryAbss
        \cup {BinaryAbs(<<"c">>, BinaryAbs(<<"a">>, BinaryBound("a", 0)))}
        \cup {BinaryApp(f, args) :
                f \in BinaryLeaves
                      \cup {BinaryAbs(ps, body) :
                              ps \in BinaryParams,
                              body \in {BinaryU8, BinaryBound("a", 0)}},
                args \in SeqsUpTo(BinaryLeaves, MaxWidth)}

InitBinary ==
    /\ ParseIdle
    /\ arg \in {[fn |-> "syntax::check::kind_of", ctx |-> c, ty |-> t] :
                    c \in BinaryCtxs, t \in BinaryTypes}
    /\ env = arg.ctx
    /\ out = Pending
    /\ next = 0

BinaryKindOf ==
    /\ arg.fn = "syntax::check::kind_of"
    /\ out = Pending
    /\ out' = binary_kind_of(env, arg.ty)
    /\ UNCHANGED <<psr, arg, env, next>>

SpecBinary == InitBinary /\ [][BinaryKindOf]_vars

\* C28: kind_of of a type abstraction of n parameters is the arrow kind of
\* arity n iff its body has kind Type in the context extended with the
\* parameters, each at kind Type; kind_of of a type application is Type iff
\* the applied type has the arrow kind of as many parameters as there are
\* arguments and every argument has kind Type, and is a Mismatch of the
\* expected and the found kind when the applied type has another kind; the
\* context of the caller is unchanged.
AbstractionAndApplication ==
    (arg.fn = "syntax::check::kind_of" /\ out # Pending) =>
        /\ env = arg.ctx
        /\ arg.ty.tag = "Abs" =>
              (out = Ok(KindArrow(Len(arg.ty.params)))
                 <=> binary_kind_of(
                         ctx_extend(env, TypeAbsScope(arg.ty.params)),
                         arg.ty.body) = Ok(KindType))
        /\ arg.ty.tag = "App" =>
              LET found == binary_kind_of(env, arg.ty.fn)
                  expected == KindArrow(Len(arg.ty.args))
              IN  /\ out = Ok(KindType)
                        <=> /\ found = Ok(expected)
                            /\ \A i \in 1..Len(arg.ty.args) :
                                  binary_kind_of(env, arg.ty.args[i])
                                      = Ok(KindType)
                  /\ (found.kind = "Ok" /\ found.val # expected)
                        => out = Err(KindMismatch(arg.ty.fn, expected,
                                                  found.val))

---------------------------------------------------------------------------
(***************************************************************************)
(* ty_of of an application, syntax/check/mod.rs 214-234.                   *)
(***************************************************************************)

HostArrows ==
    {HostArrow(ps, r) : ps \in SeqsUpTo({HostInt, HostBool}, MaxWidth),
                        r \in {HostU8, HostBool}}

\* A context where variable 0 is bound to a function of one Int.
HostFnCtx == <<ExprScope(HostArrow(<<HostInt>>, HostBool)), TypeScope>>

HostArgs ==
    {HostConst("Int"), HostConst("Bool"), HostPrim(HostU8), HostFree("y"),
     HostBinop("Add", HostConst("Int"), HostConst("Int"))}

HostFns ==
    {HostPrim(t) : t \in HostArrows}
        \cup {HostConst("Int"), HostFree("f"), HostBound("f", 0),
              HostBound("T", 1),
              HostApp(HostPrim(HostArrow(<<>>, HostArrow(<<HostInt>>, HostU8))),
                      <<>>)}

HostApps == {HostApp(f, args) : f \in HostFns,
                                args \in SeqsUpTo(HostArgs, MaxWidth)}

InitApp ==
    /\ ParseIdle
    /\ arg \in {[fn |-> "ty_of", ctx |-> c, expr |-> e] :
                    c \in {HostCtx, HostFnCtx}, e \in HostApps}
    /\ env = <<>>
    /\ out = Pending
    /\ next = 0

SpecApp == InitApp /\ [][TyOf]_vars

\* C29: ty_of of an application f(a1..ak) returns an outcome value in every
\* case: the return type when f has an arrow type of exactly k parameters and
\* each ai has the type of the i-th parameter; the Mismatch expecting an
\* arrow when the type of f is not an arrow; the Mismatch of the first
\* argument whose type is not that of its parameter; and a type error, never
\* an abort, when f is an arrow of another number of parameters than k.
ApplicationTyping ==
    (arg.fn = "ty_of" /\ arg.expr.tag = "App" /\ out # Pending) =>
        LET e == arg.expr
            fn_ty == ty_of(arg.ctx, e.fn)
            k == Len(e.args)
        IN  /\ out.kind \in {"Ok", "Err"}
            /\ (fn_ty.kind = "Ok" /\ fn_ty.val.tag # "Arrow")
                  => out = Err(Mismatch(e.fn, ExpectedArrow, fn_ty.val))
            /\ (fn_ty.kind = "Ok" /\ fn_ty.val.tag = "Arrow"
                  /\ Len(fn_ty.val.params) = k)
                  => LET found == [i \in 1..k |-> ty_of(arg.ctx, e.args[i])]
                         wrong == {i \in 1..k :
                                      found[i] # Ok(fn_ty.val.params[i])}
                     IN IF wrong = {} THEN out = Ok(fn_ty.val.ret)
                        ELSE IF found[Min(wrong)].kind # "Ok"
                        THEN out = found[Min(wrong)]
                        ELSE out = Err(Mismatch(e.args[Min(wrong)],
                                         Actual(fn_ty.val.params[Min(wrong)]),
                                         found[Min(wrong)].val))
            /\ (fn_ty.kind = "Ok" /\ fn_ty.val.tag = "Arrow"
                  /\ Len(fn_ty.val.params) # k)
                  => out.kind = "Err"

---------------------------------------------------------------------------
\* The surface term of a core term when every call gets the precedence that
\* its arm names, with no bound on the precedence.
RECURSIVE SurfaceOf(_, _)
SurfaceOf(term, prec) ==
    delaborate_term_prec(term, prec,
        [i \in 1..Len(term.args) |->
            SurfaceOf(term.args[i],
                      IF term.tag = "Ann" THEN prec + 1 ELSE 0)])

\* In a surface term, an annotation has no annotation as its term or type,
\* and parentheses hold an annotation.
RECURSIVE WellParenthesised(_)
WellParenthesised(t) ==
    /\ t.tag = "Ann" => \A i \in 1..Len(t.args) : t.args[i].tag # "Ann"
    /\ t.tag = "Paren" => t.args[1].tag = "Ann"
    /\ \A i \in 1..Len(t.args) : WellParenthesised(t.args[i])

\* A call for an annotation made by the arm for an annotation has a
\* precedence above 0, and so puts its result in parentheses.
NestedAnnotationsParenthesised ==
    \A i \in 2..Len(env) :
        (/\ env[i].fn = "delaborate_term_prec"
         /\ env[i - 1].fn = "delaborate_term_prec"
         /\ env[i].of.tag = "Ann"
         /\ env[i - 1].of.tag = "Ann") => env[i].prec > 0

\* C30: delaborate_term never fails; it gives the surface Error of the same
\* span for the core Error, never puts the term it is called for in
\* parentheses, and puts an annotation that is the term or the type of
\* another annotation in parentheses, and no other term; an alias of an
\* annotation `t : T` becomes an alias of the term t with the type T, and
\* any other alias gets no type.
AnnotationShape ==
    /\ arg.fn \in {"delaborate_term", "delaborate_module"} => out # Panic
    /\ arg.fn = "delaborate_term" => NestedAnnotationsParenthesised
    /\ (arg.fn = "delaborate_term" /\ out # Pending /\ out # Panic
          /\ "chain" \notin DOMAIN arg.term)
        => /\ out.tag # "Paren"
           /\ WellParenthesised(out)
           /\ arg.term.tag = "Error"
                 => out = surface_term("Error", arg.term.span, "", <<>>)
    /\ (arg.fn = "delaborate_module" /\ out # Pending /\ out # Panic)
        => \A i \in 1..Len(arg.module.items) :
              LET core == arg.module.items[i]
                  surface == out.items[i]
              IN  core.item = "Alias" =>
                     IF core.term.tag = "Ann"
                     THEN /\ surface.term = SurfaceOf(core.term.args[1], 0)
                          /\ surface.ty
                                = Some(SurfaceOf(core.term.args[2], 0))
                     ELSE /\ surface.term = SurfaceOf(core.term, 0)
                          /\ surface.ty = None

=============================================================================
